---- MODULE Spec2Model ----
(***************************************************************************)
(* Voice Assistant Manager: the WebSocket command handlers of api.py over  *)
(* the configuration document of const.py.                                 *)
(*                                                                         *)
(* api.py and const.py are modelled from their source.  The storage class, *)
(* the validators and the exposure resolution live in modules that api.py  *)
(* imports (.storage via hass.data, .validators, .yaml_generator,          *)
(* .homekit_manager); they are modelled from spec.md sections 3, 4.1, 4.2  *)
(* and 5 and are marked so where they are defined.                         *)
(*                                                                         *)
(* A Python list is modelled as a bag (its elements with their             *)
(* multiplicities): no handler of api.py reads the order of a list, but    *)
(* set(...) and list(set(...)) drop repetitions, which a bag keeps visible.*)
(***************************************************************************)
EXTENDS Integers, Sequences, FiniteSets, Bags, TLC

(***************************************************************************)
(* const.py                                                                *)
(***************************************************************************)
MODE_LINKED == "linked"
MODE_SEPARATE == "separate"
VALID_MODES == {MODE_LINKED, MODE_SEPARATE}

FILTER_MODE_EXCLUDE == "exclude"
FILTER_MODE_INCLUDE == "include"
VALID_FILTER_MODES == {FILTER_MODE_EXCLUDE, FILTER_MODE_INCLUDE}

ASSISTANT_GOOGLE == "google"
ASSISTANT_ALEXA == "alexa"
ASSISTANT_HOMEKIT == "homekit"
VALID_ASSISTANTS == {ASSISTANT_GOOGLE, ASSISTANT_ALEXA, ASSISTANT_HOMEKIT}

MAX_ALIAS_LENGTH == 128
MAX_ADVANCED_YAML_LENGTH == 10000
MAX_ENTITY_ID_LENGTH == 255
MAX_PROJECT_ID_LENGTH == 128
MAX_BULK_ENTITIES == 500

\* Python's None (an absent optional argument, a null bridge id, no timestamp).
None == "None"

(***************************************************************************)
(* Lists as bags.                                                          *)
(***************************************************************************)
\* The bag of the elements of the list written as the sequence s.
L(s) == [x \in {s[i] : i \in DOMAIN s} |-> Cardinality({i \in DOMAIN s : s[i] = x})]

\* Python's set(list): the elements, repetitions dropped.
PySet(b) == DOMAIN b

\* Python's list(set): every element once.
PyList(S) == [x \in S |-> 1]

\* Python's dict.get(key, default).
Get(d, k, default) == IF k \in DOMAIN d THEN d[k] ELSE default

\* Python's dict with d[k] = v assigned (the key is created when absent).
Put(d, k, v) == [x \in DOMAIN d \cup {k} |-> IF x = k THEN v ELSE d[x]]

\* Python's dict.update(other).
Update(d, other) ==
    [x \in DOMAIN d \cup DOMAIN other |-> IF x \in DOMAIN other THEN other[x] ELSE d[x]]

EmptyDict == [x \in {} |-> None]

\* Mutant of DEFAULT_FILTER_CONFIG: the default filter mode is include.
DEFAULT_FILTER_CONFIG_include ==
    [filter_mode |-> FILTER_MODE_INCLUDE,
     domains |-> L(<<>>),
     entities |-> L(<<>>),
     devices |-> L(<<>>),
     overrides |-> L(<<>>)]

DEFAULT_FILTER_CONFIG ==
    [filter_mode |-> FILTER_MODE_EXCLUDE,
     domains |-> L(<<>>),
     entities |-> L(<<>>),
     devices |-> L(<<>>),
     overrides |-> L(<<>>)]

DEFAULT_GOOGLE_SETTINGS ==
    [enabled |-> FALSE,
     project_id |-> "",
     service_account_path |-> "",
     report_state |-> TRUE,
     secure_devices_pin |-> "",
     advanced_yaml |-> ""]

DEFAULT_ALEXA_SETTINGS == [enabled |-> FALSE, advanced_yaml |-> ""]

\* Mutant of HOMEKIT_SUPPORTED_DOMAINS: media players are supported too.
HOMEKIT_SUPPORTED_DOMAINS_media ==
    {"alarm_control_panel", "climate", "cover", "fan", "humidifier",
     "light", "lock", "switch", "water_heater", "binary_sensor",
     "button", "camera", "input_boolean", "lawn_mower", "scene",
     "script", "sensor", "valve", "media_player"}

HOMEKIT_SUPPORTED_DOMAINS ==
    {"alarm_control_panel", "climate", "cover", "fan", "humidifier",
     "light", "lock", "switch", "water_heater", "binary_sensor",
     "button", "camera", "input_boolean", "lawn_mower", "scene",
     "script", "sensor", "valve"}

DEFAULT_DATA ==
    [mode |-> MODE_LINKED,
     filter_config |-> DEFAULT_FILTER_CONFIG,
     aliases |-> EmptyDict,
     google_filter_config |-> DEFAULT_FILTER_CONFIG,
     google_aliases |-> EmptyDict,
     alexa_filter_config |-> DEFAULT_FILTER_CONFIG,
     alexa_aliases |-> EmptyDict,
     homekit_filter_config |-> DEFAULT_FILTER_CONFIG,
     homekit_entry_id |-> None,
     google_settings |-> DEFAULT_GOOGLE_SETTINGS,
     alexa_settings |-> DEFAULT_ALEXA_SETTINGS,
     last_generated |-> [google |-> None, alexa |-> None, homekit |-> None]]

\* The keys of DEFAULT_DATA that hold a FilterConfig, the list-valued fields
\* of a FilterConfig, and the list fields of the document one by one.
FilterKeys ==
    {"filter_config", "google_filter_config", "alexa_filter_config", "homekit_filter_config"}
ListFields == {"domains", "entities", "devices", "overrides"}
ListSlots == FilterKeys \X ListFields

\* DEFAULT_DATA builds each of its four FilterConfigs with
\* DEFAULT_FILTER_CONFIG.copy(), a shallow copy: four dicts, and between
\* them one list object per list field, the one DEFAULT_FILTER_CONFIG holds.
DefaultListObjects == [s \in ListSlots |-> <<"DEFAULT_FILTER_CONFIG", s[2]>>]

\* A list object that one field alone holds, and a document each of whose
\* list fields holds its own (a document read from storage).
OwnList(s) == s
LoadedListObjects == [s \in ListSlots |-> OwnList(s)]

(***************************************************************************)
(* The platform's entity registry and state machine: read-only metadata.   *)
(* Four registered entities; light.kitchen and switch.fan sit on one       *)
(* device, the others on none; media_player.tv has no name of any kind;    *)
(* sensor.ghost is a well-formed id that is not registered.                *)
(***************************************************************************)
Registered == {"light.kitchen", "light.hall", "switch.fan", "media_player.tv"}

\* entity_id.split(".")[0]
DomainOf(e) ==
    CASE e = "light.kitchen" -> "light"
      [] e = "light.hall" -> "light"
      [] e = "switch.fan" -> "switch"
      [] e = "media_player.tv" -> "media_player"
      [] e = "sensor.ghost" -> "sensor"
      [] e = "light.overlong_entity_id" -> "light"

\* entity.device_id of the registry entry
DeviceOf(e) ==
    CASE e = "light.kitchen" -> "dev_a"
      [] e = "switch.fan" -> "dev_a"
      [] OTHER -> None

\* The registry entry of an entity id (ent_reg.async_get), None when absent.
\* light.kitchen has a state with a friendly name, light.hall only a registry
\* name, switch.fan only its original name, media_player.tv none of them.
RegistryEntry(e) ==
    CASE e = "light.kitchen" ->
           [entity_id |-> e, device_id |-> "dev_a", name |-> None,
            original_name |-> "Kitchen", friendly_name |-> "Kitchen Light"]
      [] e = "light.hall" ->
           [entity_id |-> e, device_id |-> None, name |-> "Hall",
            original_name |-> "Hall Lamp", friendly_name |-> None]
      [] e = "switch.fan" ->
           [entity_id |-> e, device_id |-> "dev_a", name |-> None,
            original_name |-> "Fan", friendly_name |-> None]
      [] e = "media_player.tv" ->
           [entity_id |-> e, device_id |-> None, name |-> None,
            original_name |-> None, friendly_name |-> None]
      [] OTHER -> None

\* The descriptor {entity_id, domain, device_id} the resolution engine reads.
Descriptor(e) == [entity_id |-> e, domain |-> DomainOf(e), device_id |-> DeviceOf(e)]

(***************************************************************************)
(* State.                                                                  *)
(***************************************************************************)
VARIABLES
    doc,       \* the store's in-memory configuration document
    tasks,     \* per handler task: where it is, its request, its response
    holder,    \* the task inside the store's critical section, 0 when none
    lockq,     \* the tasks waiting to enter it, in arrival order
    ncmds,     \* requests received so far
    prev,      \* history: the completed request before the current one
    bridges,   \* the host platform's HomeKit bridges: id -> what the bridge
               \* includes and which entities it refuses to add or remove
    bridgeops, \* history: the bridge operations the current request issued,
               \* and the artifacts it wrote
    faults,    \* the I/O that fails now: "store" (the store's persistence),
               \* an assistant (the write of its artifact file)
    listobj,   \* the list object each list field of each FilterConfig of the
               \* document refers to: two fields that refer to one object
               \* are one list
    pull_merges \* whether the bridge manager's pull keeps the overrides of
               \* the FilterConfig it writes (a merge) or clears them (a
               \* replace): fixed by the manager's code, left open in 9

vars == <<doc, tasks, holder, lockq, ncmds, prev, bridges, bridgeops, faults, listobj,
          pull_merges>>

(***************************************************************************)
(* Filter resolution (spec.md 4.1; the engine's code is in the generator   *)
(* and bridge modules).                                                    *)
(***************************************************************************)
\* Mutant of exposed: the overrides are not applied.
exposed_without_overrides(E, C) ==
    LET matched == \/ BagIn(E.domain, C.domains)
                   \/ BagIn(E.entity_id, C.entities)
                   \/ (E.device_id # None /\ BagIn(E.device_id, C.devices))
    IN  IF C.filter_mode = FILTER_MODE_INCLUDE THEN matched ELSE ~matched

exposed(E, C) ==
    LET matched == \/ BagIn(E.domain, C.domains)
                   \/ BagIn(E.entity_id, C.entities)
                   \/ (E.device_id # None /\ BagIn(E.device_id, C.devices))
        base == IF C.filter_mode = FILTER_MODE_INCLUDE THEN matched ELSE ~matched
    IN  IF BagIn(E.entity_id, C.overrides) THEN ~base ELSE base

(***************************************************************************)
(* Validation layer (spec.md 2 and 7: sanitises and bounds-checks, raises  *)
(* ValidationError on malformed or out-of-range input).  A validator is    *)
(* modelled by the predicate "does not raise"; a value that passes is      *)
(* handed on as it is.  The lengths of the model's strings:                *)
(***************************************************************************)
StrLen(s) ==
    CASE s = "light.overlong_entity_id" -> MAX_ENTITY_ID_LENGTH + 1
      [] s = "overlong alias" -> MAX_ALIAS_LENGTH + 1
      [] s = "overlong project id" -> MAX_PROJECT_ID_LENGTH + 1
      [] s = "overlong yaml" -> MAX_ADVANCED_YAML_LENGTH + 1
      [] s = "" -> 0
      [] OTHER -> 12

validate_mode(m) == m \in VALID_MODES
validate_filter_mode(m) == m \in VALID_FILTER_MODES
validate_assistant(a) == a = None \/ a \in VALID_ASSISTANTS
validate_entity_id(e) == StrLen(e) <= MAX_ENTITY_ID_LENGTH
validate_entity_ids(ids) == \A e \in PySet(ids) : validate_entity_id(e)
validate_domains(ds) == \A d \in PySet(ds) : StrLen(d) <= MAX_ENTITY_ID_LENGTH
validate_alias(s) == StrLen(s) <= MAX_ALIAS_LENGTH

\* Each field that is present is checked; an absent field stays absent.
validate_filter_config(c) ==
    /\ ("filter_mode" \in DOMAIN c => validate_filter_mode(c.filter_mode))
    /\ ("domains" \in DOMAIN c => validate_domains(c.domains))
    /\ ("entities" \in DOMAIN c => validate_entity_ids(c.entities))
    /\ ("devices" \in DOMAIN c => validate_domains(c.devices))
    /\ ("overrides" \in DOMAIN c => validate_entity_ids(c.overrides))

validate_google_settings(s) ==
    /\ StrLen(Get(s, "project_id", "")) <= MAX_PROJECT_ID_LENGTH
    /\ StrLen(Get(s, "advanced_yaml", "")) <= MAX_ADVANCED_YAML_LENGTH

validate_alexa_settings(s) ==
    StrLen(Get(s, "advanced_yaml", "")) <= MAX_ADVANCED_YAML_LENGTH

(***************************************************************************)
(* Configuration store (spec.md 3 and 4.2).  Every operation is one        *)
(* read-modify-write of the document; the operators below give the         *)
(* document after the in-memory merge.                                     *)
(***************************************************************************)
\* The FilterConfig a store operation addresses: the shared one when the
\* assistant is omitted, the assistant's own otherwise (4.2).
FilterKey(a) ==
    CASE a = None -> "filter_config"
      [] a = ASSISTANT_GOOGLE -> "google_filter_config"
      [] a = ASSISTANT_ALEXA -> "alexa_filter_config"
      [] a = ASSISTANT_HOMEKIT -> "homekit_filter_config"

\* The alias map a store operation addresses.
AliasKey(a) ==
    CASE a = None -> "aliases"
      [] a = ASSISTANT_GOOGLE -> "google_aliases"
      [] a = ASSISTANT_ALEXA -> "alexa_aliases"
      [] a = ASSISTANT_HOMEKIT -> "homekit_aliases"

\* Mutant of EffectiveFilterKey: the mode is not consulted.
EffectiveFilterKey_own(d, a) == FilterKey(a)

\* The FilterConfig and alias map exposure is resolved from for an
\* assistant: the shared pair in linked mode, its own in separate mode (3, 4.3).
EffectiveFilterKey(d, a) == IF d.mode = MODE_LINKED THEN FilterKey(None) ELSE FilterKey(a)
EffectiveAliasKey(d, a) == IF d.mode = MODE_LINKED THEN AliasKey(None) ELSE AliasKey(a)

\* The list-valued fields of a FilterConfig are sets in the document (3):
\* a list is stored with each element once.
AsStored(config) ==
    [f \in DOMAIN config |->
        IF f \in ListFields THEN PyList(PySet(config[f])) ELSE config[f]]

\* get_filter_config(assistant): a snapshot of the addressed FilterConfig.
get_filter_config(d, a) == d[FilterKey(a)]

\* get_aliases(assistant): the addressed alias map, empty when never written.
get_aliases(d, a) == Get(d, AliasKey(a), EmptyDict)

\* Mutant of async_set_mode: going back to linked mode adopts Google's
\* FilterConfig as the shared one.
async_set_mode_adopt(d, mode) ==
    IF mode = MODE_LINKED
    THEN [d EXCEPT !.mode = mode, !.filter_config = d.google_filter_config]
    ELSE [d EXCEPT !.mode = mode]

\* set_mode(mode)
async_set_mode(d, mode) == [d EXCEPT !.mode = mode]

\* set_filter_mode(mode, assistant?): only filter_mode of the addressed config.
async_set_filter_mode(d, fm, a) == [d EXCEPT ![FilterKey(a)].filter_mode = fm]

\* set_filter_config(config, assistant?): field-level merge.
async_set_filter_config(d, config, a) ==
    [d EXCEPT ![FilterKey(a)] = Update(@, AsStored(config))]

\* set_domains(domains, assistant?): replaces domains of the addressed config.
async_set_domains(d, domains, a) ==
    [d EXCEPT ![FilterKey(a)].domains = PyList(PySet(domains))]

\* toggle_override(entity_id, assistant?) -> added
toggle_added(d, e, a) == ~BagIn(e, get_filter_config(d, a).overrides)

\* Mutant of async_toggle_override: the id is added, never removed.
async_toggle_override_add_only(d, e, a) ==
    [d EXCEPT ![FilterKey(a)].overrides = Put(@, e, 1)]

\* The list fields a store operation stores a list in.
StoreAssigns(op) ==
    CASE op.op = "set_filter_config" ->
           {<<FilterKey(op.assistant), f>> : f \in DOMAIN op.config \cap ListFields}
      [] op.op = "set_domains" -> {<<FilterKey(op.assistant), "domains">>}
      [] op.op = "toggle_override" -> {<<FilterKey(op.assistant), "overrides">>}
      [] OTHER -> {}

\* Mutant of async_toggle_override: the list object is changed in place,
\* and with it the overrides of every FilterConfig that holds that object.
async_toggle_override_in_place(d, e, a) ==
    LET ov == get_filter_config(d, a).overrides
        new == IF BagIn(e, ov) THEN [x \in DOMAIN ov \ {e} |-> ov[x]] ELSE Put(ov, e, 1)
        same == {k \in FilterKeys :
                    listobj[<<k, "overrides">>] = listobj[<<FilterKey(a), "overrides">>]}
    IN  [k \in DOMAIN d |-> IF k \in same THEN [d[k] EXCEPT !.overrides = new] ELSE d[k]]

async_toggle_override(d, e, a) ==
    LET ov == get_filter_config(d, a).overrides
    IN  [d EXCEPT ![FilterKey(a)].overrides =
            IF BagIn(e, ov) THEN [x \in DOMAIN ov \ {e} |-> ov[x]]
            ELSE Put(ov, e, 1)]

\* set_aliases_bulk(map, assistant?): writes each entry; an empty alias
\* clears the user's alias of that entity.
async_set_aliases_bulk(d, new, a) ==
    LET cur == get_aliases(d, a)
        keep == {e \in DOMAIN cur \cup DOMAIN new :
                    IF e \in DOMAIN new THEN new[e] # "" ELSE TRUE}
    IN  Put(d, AliasKey(a), [e \in keep |-> IF e \in DOMAIN new THEN new[e] ELSE cur[e]])

\* set_alias(entity_id, alias, assistant?)
async_set_alias(d, e, alias, a) == async_set_aliases_bulk(d, Put(EmptyDict, e, alias), a)

\* set_<assistant>_settings(settings): full-object replace.
async_set_google_settings(d, s) == [d EXCEPT !.google_settings = s]
async_set_alexa_settings(d, s) == [d EXCEPT !.alexa_settings = s]

\* set_bridge_id(id | null)
async_set_homekit_entry_id(d, id) == [d EXCEPT !.homekit_entry_id = id]

\* set_last_generated(assistant, timestamp)
async_set_last_generated(d, a, timestamp) == [d EXCEPT !.last_generated[a] = timestamp]

\* is_<assistant>_complete(): Google needs enabled and its identifying
\* fields (project id, service account path) non-empty, Alexa needs enabled,
\* HomeKit needs a selected bridge.
is_google_complete(d) ==
    /\ Get(d.google_settings, "enabled", FALSE)
    /\ Get(d.google_settings, "project_id", "") # ""
    /\ Get(d.google_settings, "service_account_path", "") # ""

is_alexa_complete(d) == Get(d.alexa_settings, "enabled", FALSE)
is_homekit_complete(d) == d.homekit_entry_id # None

\* The document after the store operation op (a record naming the
\* operation and its arguments).
StoreApply(d, op) ==
    CASE op.op = "set_mode" -> async_set_mode(d, op.mode)
      [] op.op = "set_filter_mode" -> async_set_filter_mode(d, op.filter_mode, op.assistant)
      [] op.op = "set_filter_config" -> async_set_filter_config(d, op.config, op.assistant)
      [] op.op = "set_domains" -> async_set_domains(d, op.domains, op.assistant)
      [] op.op = "toggle_override" -> async_toggle_override(d, op.entity_id, op.assistant)
      [] op.op = "set_alias" -> async_set_alias(d, op.entity_id, op.alias, op.assistant)
      [] op.op = "set_aliases_bulk" -> async_set_aliases_bulk(d, op.aliases, op.assistant)
      [] op.op = "set_google_settings" -> async_set_google_settings(d, op.settings)
      [] op.op = "set_alexa_settings" -> async_set_alexa_settings(d, op.settings)
      [] op.op = "set_homekit_entry_id" -> async_set_homekit_entry_id(d, op.entry_id)
      [] op.op = "set_last_generated" ->
           async_set_last_generated(d, op.assistant, op.timestamp)

\* A store operation that returns nothing.
NoRet == [none |-> TRUE]

\* What the awaiting handler resumes with: the value the store operation
\* returns (toggle_override's added), or the locals the handler holds across
\* the await (validated_config; result and timestamp, carried as op.local).
StoreReturn(d, op) ==
    CASE "local" \in DOMAIN op -> op.local
      [] op.op = "toggle_override" -> toggle_added(d, op.entity_id, op.assistant)
      [] op.op = "set_filter_config" -> op.config
      [] OTHER -> NoRet

\* The bridges the host platform has now (hk_manager.get_bridge_config
\* finds these).
Bridges == DOMAIN bridges

(***************************************************************************)
(* Bridge reconciliation manager (spec.md 4.4).  A bridge is the record of *)
(* the entities it includes and of the entities whose add or remove it     *)
(* refuses.                                                                *)
(***************************************************************************)
\* The exposure set push resolves: the registered entities of a domain the
\* bridge protocol supports that HomeKit's effective FilterConfig exposes.
ResolvedForBridge(d) ==
    {e \in Registered :
        /\ DomainOf(e) \in HOMEKIT_SUPPORTED_DOMAINS
        /\ exposed(Descriptor(e), d[EffectiveFilterKey(d, ASSISTANT_HOMEKIT)])}

\* Mutant of push: a refused operation aborts the push, nothing is applied.
push_all_or_nothing(d) ==
    LET id == d.homekit_entry_id
    IN  IF id = None \/ id \notin Bridges THEN [ok |-> FALSE]
        ELSE LET B == bridges[id].included
                 rej == bridges[id].rejects
                 R == ResolvedForBridge(d)
                 adds == R \ B
                 removes == B \ R
                 failed == (adds \cup removes) \cap rej
             IN  [ok |-> TRUE,
                  ops |-> {[op |-> "add", e |-> e] : e \in adds}
                          \cup {[op |-> "remove", e |-> e] : e \in removes},
                  bridges |-> IF failed = {} THEN [bridges EXCEPT ![id].included = R]
                              ELSE bridges,
                  result |-> [added |-> IF failed = {} THEN adds ELSE {},
                              removed |-> IF failed = {} THEN removes ELSE {},
                              failed |-> failed]]

\* Mutant of push: every resolved entity is added again, included or not.
push_adds_all(d) ==
    LET id == d.homekit_entry_id
    IN  IF id = None \/ id \notin Bridges THEN [ok |-> FALSE]
        ELSE LET B == bridges[id].included
                 rej == bridges[id].rejects
                 R == ResolvedForBridge(d)
                 adds == R
                 removes == B \ R
                 failed == (adds \cup removes) \cap rej
             IN  [ok |-> TRUE,
                  ops |-> {[op |-> "add", e |-> e] : e \in adds}
                          \cup {[op |-> "remove", e |-> e] : e \in removes},
                  bridges |-> [bridges EXCEPT ![id].included =
                                  (B \cup (adds \ rej)) \ (removes \ rej)],
                  result |-> [added |-> adds \ rej, removed |-> removes \ rej,
                              failed |-> failed]]

\* push(): fails when no existing bridge is selected; otherwise issues
\* add(e) for the resolved entities the bridge lacks and remove(e) for the
\* included entities that are not resolved.  An operation the bridge refuses
\* is reported in failed and the push goes on.
push(d) ==
    LET id == d.homekit_entry_id
    IN  IF id = None \/ id \notin Bridges THEN [ok |-> FALSE]
        ELSE LET B == bridges[id].included
                 rej == bridges[id].rejects
                 R == ResolvedForBridge(d)
                 adds == R \ B
                 removes == B \ R
                 failed == (adds \cup removes) \cap rej
             IN  [ok |-> TRUE,
                  ops |-> {[op |-> "add", e |-> e] : e \in adds}
                          \cup {[op |-> "remove", e |-> e] : e \in removes},
                  bridges |-> [bridges EXCEPT ![id].included =
                                  (B \cup (adds \ rej)) \ (removes \ rej)],
                  result |-> [added |-> adds \ rej, removed |-> removes \ rej,
                              failed |-> failed]]

\* pull(): fails when no existing bridge is selected; otherwise reads the
\* bridge's inclusion set and writes it into the FilterConfig of the bridge
\* assistant, HomeKit's own (4.4), in either mode: include mode, the
\* included entities, no domain and no device.  The overrides that
\* FilterConfig held are cleared or kept (pull_merges).
pull(d) ==
    LET id == d.homekit_entry_id
    IN  IF id = None \/ id \notin Bridges THEN [ok |-> FALSE]
        ELSE LET B == bridges[id].included
                 written == [filter_mode |-> FILTER_MODE_INCLUDE,
                             domains |-> L(<<>>), entities |-> PyList(B),
                             devices |-> L(<<>>)]
             IN  [ok |-> TRUE,
                  op |-> [op |-> "set_filter_config",
                          config |-> IF pull_merges THEN written
                                     ELSE Put(written, "overrides", L(<<>>)),
                          assistant |-> ASSISTANT_HOMEKIT,
                          local |-> [imported |-> B]]]

(***************************************************************************)
(* api.py: the command handlers.  A handler runs without interruption up   *)
(* to its next await (of the store, of the generator's file write or of    *)
(* the bridge manager): a handler operator gives, for the request msg      *)
(* resumed at segment i with the document d and the value ret of the call  *)
(* just awaited (or the handler's locals), what the handler does next: it  *)
(* calls the store, it awaits a write or a push (and resumes at segment    *)
(* next), or it sends its response.                                        *)
(***************************************************************************)
Call(op, next) == [kind |-> "store", op |-> op, next |-> next]
\* A store call made when an awaited file write or bridge call has taken
\* effect: the bridges are b, and ops were performed.
CallAfterBridge(op, next, b, ops) ==
    [kind |-> "store", op |-> op, next |-> next, bridges |-> b, ops |-> ops]
\* The handler awaits the generator's file write: it resumes at segment
\* next with its locals.
AwaitFile(next, local) ==
    [kind |-> "await", pc |-> "file_io", next |-> next, local |-> local]
\* The handler awaits the bridge manager, which has changed the bridges to
\* b with the operations ops: it resumes at segment next with its locals.
AwaitBridge(next, local, b, ops) ==
    [kind |-> "await", pc |-> "bridge_io", next |-> next, local |-> local,
     bridges |-> b, ops |-> ops]
Reply(resp) == [kind |-> "reply", resp |-> resp]
\* A reply of a handler that has assigned into an object it got from the
\* store: d2 is the store's document afterwards.
ReplyWith(resp, d2) == [kind |-> "reply", resp |-> resp, doc |-> d2]

\* connection.send_result(msg["id"], payload)
send_result(payload) == [ok |-> TRUE, payload |-> payload]
\* connection.send_error(msg["id"], code, str(err))
send_error(code) == [ok |-> FALSE, code |-> code]

\* Python's "a or b" on optional strings.
Or(a, b) == IF a \notin {None, ""} THEN a ELSE b

websocket_set_mode(d, msg, i, ret) ==
    IF i = 1 THEN
        IF ~validate_mode(msg.mode) THEN Reply(send_error("validation_error"))
        ELSE Call([op |-> "set_mode", mode |-> msg.mode], 2)
    ELSE Reply(send_result([success |-> TRUE, mode |-> msg.mode]))

\* Mutant of websocket_set_filter_mode: the assistant is not passed on.
websocket_set_filter_mode_no_assistant(d, msg, i, ret) ==
    IF i = 1 THEN
        IF ~(validate_filter_mode(msg.filter_mode) /\ validate_assistant(msg.assistant))
        THEN Reply(send_error("validation_error"))
        ELSE Call([op |-> "set_filter_mode", filter_mode |-> msg.filter_mode,
                   assistant |-> None], 2)
    ELSE Reply(send_result([success |-> TRUE, filter_mode |-> msg.filter_mode]))

websocket_set_filter_mode(d, msg, i, ret) ==
    IF i = 1 THEN
        IF ~(validate_filter_mode(msg.filter_mode) /\ validate_assistant(msg.assistant))
        THEN Reply(send_error("validation_error"))
        ELSE Call([op |-> "set_filter_mode", filter_mode |-> msg.filter_mode,
                   assistant |-> msg.assistant], 2)
    ELSE Reply(send_result([success |-> TRUE, filter_mode |-> msg.filter_mode]))

\* Mutant of merged_filter_config: an absent field takes its default.
merged_filter_config_defaults(current, new_config) ==
    [filter_mode |-> Get(new_config, "filter_mode", FILTER_MODE_EXCLUDE),
     domains |-> Get(new_config, "domains", L(<<>>)),
     entities |-> Get(new_config, "entities", L(<<>>)),
     devices |-> Get(new_config, "devices", L(<<>>)),
     overrides |-> Get(new_config, "overrides", L(<<>>))]

\* The handler's own merge of the request with the current config (lines 332-341).
merged_filter_config(current, new_config) ==
    [filter_mode |-> Get(new_config, "filter_mode",
                         Get(current, "filter_mode", FILTER_MODE_EXCLUDE)),
     domains |-> Get(new_config, "domains", Get(current, "domains", L(<<>>))),
     entities |-> Get(new_config, "entities", Get(current, "entities", L(<<>>))),
     devices |-> Get(new_config, "devices", Get(current, "devices", L(<<>>))),
     overrides |-> Get(new_config, "overrides", Get(current, "overrides", L(<<>>)))]

websocket_set_filter_config(d, msg, i, ret) ==
    LET merged == merged_filter_config(get_filter_config(d, msg.assistant), msg.filter_config)
    IN  IF i = 1 THEN
            IF ~(validate_assistant(msg.assistant) /\ validate_filter_config(merged))
            THEN Reply(send_error("validation_error"))
            ELSE Call([op |-> "set_filter_config", config |-> merged,
                       assistant |-> msg.assistant], 2)
        ELSE Reply(send_result([success |-> TRUE, filter_config |-> ret]))

\* Mutant of websocket_set_domains: the assistant is not passed on.
websocket_set_domains_shared(d, msg, i, ret) ==
    IF i = 1 THEN
        IF ~(validate_domains(msg.domains) /\ validate_assistant(msg.assistant))
        THEN Reply(send_error("validation_error"))
        ELSE Call([op |-> "set_domains", domains |-> msg.domains,
                   assistant |-> None], 2)
    ELSE Reply(send_result([success |-> TRUE, domains |-> msg.domains]))

websocket_set_domains(d, msg, i, ret) ==
    IF i = 1 THEN
        IF ~(validate_domains(msg.domains) /\ validate_assistant(msg.assistant))
        THEN Reply(send_error("validation_error"))
        ELSE Call([op |-> "set_domains", domains |-> msg.domains,
                   assistant |-> msg.assistant], 2)
    ELSE Reply(send_result([success |-> TRUE, domains |-> msg.domains]))

\* Mutant of websocket_toggle_override: the assistant is not passed on.
websocket_toggle_override_no_assistant(d, msg, i, ret) ==
    IF i = 1 THEN
        IF ~(validate_entity_id(msg.entity_id) /\ validate_assistant(msg.assistant))
        THEN Reply(send_error("validation_error"))
        ELSE Call([op |-> "toggle_override", entity_id |-> msg.entity_id,
                   assistant |-> None], 2)
    ELSE Reply(send_result([success |-> TRUE, entity_id |-> msg.entity_id, added |-> ret]))

\* Mutant of websocket_toggle_override: the store's answer is not reported.
websocket_toggle_override_added_true(d, msg, i, ret) ==
    IF i = 1 THEN
        IF ~(validate_entity_id(msg.entity_id) /\ validate_assistant(msg.assistant))
        THEN Reply(send_error("validation_error"))
        ELSE Call([op |-> "toggle_override", entity_id |-> msg.entity_id,
                   assistant |-> msg.assistant], 2)
    ELSE Reply(send_result([success |-> TRUE, entity_id |-> msg.entity_id, added |-> TRUE]))

websocket_toggle_override(d, msg, i, ret) ==
    IF i = 1 THEN
        IF ~(validate_entity_id(msg.entity_id) /\ validate_assistant(msg.assistant))
        THEN Reply(send_error("validation_error"))
        ELSE Call([op |-> "toggle_override", entity_id |-> msg.entity_id,
                   assistant |-> msg.assistant], 2)
    ELSE Reply(send_result([success |-> TRUE, entity_id |-> msg.entity_id, added |-> ret]))

websocket_set_alias(d, msg, i, ret) ==
    IF i = 1 THEN
        IF ~(/\ validate_entity_id(msg.entity_id)
             /\ validate_alias(msg.alias)
             /\ validate_assistant(msg.assistant))
        THEN Reply(send_error("validation_error"))
        ELSE Call([op |-> "set_alias", entity_id |-> msg.entity_id, alias |-> msg.alias,
                   assistant |-> msg.assistant], 2)
    ELSE Reply(send_result([success |-> TRUE]))

\* Mutant of display_name: the state's friendly name is not consulted.
display_name_registry_only(e) ==
    LET entity == RegistryEntry(e)
    IN  Or(entity.name, Or(entity.original_name, e))

\* Lines 527-529: the name an alias prefix or suffix is attached to.
display_name(e) ==
    LET entity == RegistryEntry(e)
    IN  Or(entity.friendly_name, Or(entity.name, Or(entity.original_name, e)))

\* Mutant of bulk_update_call: exclude replaces the entities by the listed ids.
bulk_update_call_replace(d, msg) ==
    LET a == msg.assistant
        ids == PySet(msg.entity_ids)
        config == get_filter_config(d, a)
        known == ids \cap Registered
        action == msg.action
        set_config(c) == [op |-> "set_filter_config", config |-> c, assistant |-> a]
        set_aliases(m) == [op |-> "set_aliases_bulk", aliases |-> m, assistant |-> a]
    IN  CASE action = "exclude" ->
               set_config(Put(config, "entities",
                    PyList(ids)))
          [] action = "unexclude" ->
               set_config(Put(config, "entities",
                    PyList(PySet(Get(config, "entities", L(<<>>))) \ ids)))
          [] action = "add_override" ->
               set_config(Put(config, "overrides",
                    PyList(PySet(Get(config, "overrides", L(<<>>))) \cup ids)))
          [] action = "remove_override" ->
               set_config(Put(config, "overrides",
                    PyList(PySet(Get(config, "overrides", L(<<>>))) \ ids)))
          [] action = "set_alias_prefix" ->
               set_aliases([e \in known |-> msg.value \o display_name(e)])
          [] action = "set_alias_suffix" ->
               set_aliases([e \in known |-> display_name(e) \o msg.value])
          [] action = "clear_alias" ->
               set_aliases([e \in ids |-> ""])
          [] action = "exclude_domain" ->
               set_config(Put(config, "domains",
                    PyList(PySet(Get(config, "domains", L(<<>>)))
                           \cup {DomainOf(e) : e \in ids})))
          [] action = "exclude_device" ->
               set_config(Put(config, "devices",
                    PyList(PySet(Get(config, "devices", L(<<>>)))
                           \cup {DeviceOf(e) : e \in {x \in known : DeviceOf(x) # None}})))

\* The store call of websocket_bulk_update for each action (lines 493-571);
\* config[key] = list(...) creates the key when the config lacks it.
bulk_update_call(d, msg) ==
    LET a == msg.assistant
        ids == PySet(msg.entity_ids)
        config == get_filter_config(d, a)
        known == ids \cap Registered
        action == msg.action
        set_config(c) == [op |-> "set_filter_config", config |-> c, assistant |-> a]
        set_aliases(m) == [op |-> "set_aliases_bulk", aliases |-> m, assistant |-> a]
    IN  CASE action = "exclude" ->
               set_config(Put(config, "entities",
                    PyList(PySet(Get(config, "entities", L(<<>>))) \cup ids)))
          [] action = "unexclude" ->
               set_config(Put(config, "entities",
                    PyList(PySet(Get(config, "entities", L(<<>>))) \ ids)))
          [] action = "add_override" ->
               set_config(Put(config, "overrides",
                    PyList(PySet(Get(config, "overrides", L(<<>>))) \cup ids)))
          [] action = "remove_override" ->
               set_config(Put(config, "overrides",
                    PyList(PySet(Get(config, "overrides", L(<<>>))) \ ids)))
          [] action = "set_alias_prefix" ->
               set_aliases([e \in known |-> msg.value \o display_name(e)])
          [] action = "set_alias_suffix" ->
               set_aliases([e \in known |-> display_name(e) \o msg.value])
          [] action = "clear_alias" ->
               set_aliases([e \in ids |-> ""])
          [] action = "exclude_domain" ->
               set_config(Put(config, "domains",
                    PyList(PySet(Get(config, "domains", L(<<>>)))
                           \cup {DomainOf(e) : e \in ids})))
          [] action = "exclude_device" ->
               set_config(Put(config, "devices",
                    PyList(PySet(Get(config, "devices", L(<<>>)))
                           \cup {DeviceOf(e) : e \in {x \in known : DeviceOf(x) # None}})))

websocket_bulk_update(d, msg, i, ret) ==
    IF i = 1 THEN
        IF ~(/\ validate_entity_ids(msg.entity_ids)
             /\ validate_alias(msg.value)
             /\ validate_assistant(msg.assistant))
        THEN Reply(send_error("validation_error"))
        ELSE Call(bulk_update_call(d, msg), 2)
    ELSE Reply(send_result([success |-> TRUE]))

\* The fields of a save_all request in the order the handler saves them.
SaveAllFields ==
    <<"filter_config", "google_filter_config", "alexa_filter_config",
      "homekit_filter_config", "aliases", "google_aliases", "alexa_aliases",
      "google_settings", "alexa_settings", "homekit_entry_id">>

\* The assistant argument save_all passes for a field (None: the shared one).
SaveAllAssistant(f) ==
    CASE f \in {"google_filter_config", "google_aliases"} -> ASSISTANT_GOOGLE
      [] f \in {"alexa_filter_config", "alexa_aliases"} -> ASSISTANT_ALEXA
      [] f = "homekit_filter_config" -> ASSISTANT_HOMEKIT
      [] OTHER -> None

\* Mutant of save_all_field: a filter config is completed with the defaults.
save_all_field_defaults(msg, f, next) ==
    CASE f \in {"filter_config", "google_filter_config", "alexa_filter_config",
                "homekit_filter_config"} ->
           IF ~validate_filter_config(msg[f]) THEN Reply(send_error("validation_error"))
           ELSE Call([op |-> "set_filter_config",
                      config |-> Update(DEFAULT_FILTER_CONFIG, msg[f]),
                      assistant |-> SaveAllAssistant(f)], next)
      [] f \in {"aliases", "google_aliases", "alexa_aliases"} ->
           Call([op |-> "set_aliases_bulk", aliases |-> msg[f],
                 assistant |-> SaveAllAssistant(f)], next)
      [] f = "google_settings" ->
           IF ~validate_google_settings(msg[f]) THEN Reply(send_error("validation_error"))
           ELSE Call([op |-> "set_google_settings", settings |-> msg[f]], next)
      [] f = "alexa_settings" ->
           IF ~validate_alexa_settings(msg[f]) THEN Reply(send_error("validation_error"))
           ELSE Call([op |-> "set_alexa_settings", settings |-> msg[f]], next)
      [] f = "homekit_entry_id" ->
           IF msg[f] # None /\ msg[f] \notin Bridges THEN Reply(send_error("homekit_error"))
           ELSE Call([op |-> "set_homekit_entry_id", entry_id |-> msg[f]], next)

\* One "if <field> in msg:" block of websocket_save_all.
save_all_field(msg, f, next) ==
    CASE f \in {"filter_config", "google_filter_config", "alexa_filter_config",
                "homekit_filter_config"} ->
           IF ~validate_filter_config(msg[f]) THEN Reply(send_error("validation_error"))
           ELSE Call([op |-> "set_filter_config", config |-> msg[f],
                      assistant |-> SaveAllAssistant(f)], next)
      [] f \in {"aliases", "google_aliases", "alexa_aliases"} ->
           Call([op |-> "set_aliases_bulk", aliases |-> msg[f],
                 assistant |-> SaveAllAssistant(f)], next)
      [] f = "google_settings" ->
           IF ~validate_google_settings(msg[f]) THEN Reply(send_error("validation_error"))
           ELSE Call([op |-> "set_google_settings", settings |-> msg[f]], next)
      [] f = "alexa_settings" ->
           IF ~validate_alexa_settings(msg[f]) THEN Reply(send_error("validation_error"))
           ELSE Call([op |-> "set_alexa_settings", settings |-> msg[f]], next)
      [] f = "homekit_entry_id" ->
           IF msg[f] # None /\ msg[f] \notin Bridges THEN Reply(send_error("homekit_error"))
           ELSE Call([op |-> "set_homekit_entry_id", entry_id |-> msg[f]], next)

\* websocket_save_all resumed at field number i: the absent fields are
\* passed over, the first present one is validated and saved.
websocket_save_all(d, msg, i, ret) ==
    LET rest == {j \in i..Len(SaveAllFields) : SaveAllFields[j] \in DOMAIN msg}
    IN  IF rest = {} THEN Reply(send_result([success |-> TRUE]))
        ELSE LET j == CHOOSE x \in rest : \A y \in rest : x <= y
             IN  save_all_field(msg, SaveAllFields[j], j + 1)

\* Mutant of websocket_set_settings: the request is merged into the
\* settings stored.
websocket_set_settings_merged(d, msg, i, ret) ==
    IF i = 1 THEN
        IF msg.assistant = ASSISTANT_GOOGLE THEN
            IF ~validate_google_settings(msg.settings)
            THEN Reply(send_error("validation_error"))
            ELSE Call([op |-> "set_google_settings",
                       settings |-> Update(d.google_settings, msg.settings)], 2)
        ELSE
            IF ~validate_alexa_settings(msg.settings)
            THEN Reply(send_error("validation_error"))
            ELSE Call([op |-> "set_alexa_settings",
                       settings |-> Update(d.alexa_settings, msg.settings)], 2)
    ELSE Reply(send_result([success |-> TRUE]))

websocket_set_settings(d, msg, i, ret) ==
    IF i = 1 THEN
        IF msg.assistant = ASSISTANT_GOOGLE THEN
            IF ~validate_google_settings(msg.settings)
            THEN Reply(send_error("validation_error"))
            ELSE Call([op |-> "set_google_settings", settings |-> msg.settings], 2)
        ELSE
            IF ~validate_alexa_settings(msg.settings)
            THEN Reply(send_error("validation_error"))
            ELSE Call([op |-> "set_alexa_settings", settings |-> msg.settings], 2)
    ELSE Reply(send_result([success |-> TRUE]))

\* datetime.now().isoformat(): the requests are numbered, the timestamp
\* names the number of the last request received.  Now is the clock while
\* a request is being received, NowResumed the clock in a handler that
\* resumes after an await.
Now == "t" \o ToString(ncmds + 1)
NowResumed == "t" \o ToString(ncmds)

\* Mutant of websocket_set_homekit_bridge: the id is not looked up.
websocket_set_homekit_bridge_unchecked(d, msg, i, ret) ==
    IF i = 1 THEN Call([op |-> "set_homekit_entry_id", entry_id |-> msg.entry_id], 2)
    ELSE Reply(send_result([success |-> TRUE, entry_id |-> msg.entry_id]))

websocket_set_homekit_bridge(d, msg, i, ret) ==
    IF i = 1 THEN
        IF msg.entry_id # None /\ msg.entry_id \notin Bridges
        THEN Reply(send_error("homekit_error"))
        ELSE Call([op |-> "set_homekit_entry_id", entry_id |-> msg.entry_id], 2)
    ELSE Reply(send_result([success |-> TRUE, entry_id |-> msg.entry_id]))

\* Mutant of websocket_sync_homekit: the timestamp is written whether or
\* not the push failed.
websocket_sync_homekit_stamp_always(d, msg, i, ret) ==
    IF i = 1 THEN
        LET p == push(d)
        IN  IF ~p.ok
            THEN Call([op |-> "set_last_generated", assistant |-> ASSISTANT_HOMEKIT,
                       timestamp |-> Now], 4)
            ELSE AwaitBridge(2, p.result, p.bridges, p.ops)
    ELSE IF i = 2 THEN
        Call([op |-> "set_last_generated", assistant |-> ASSISTANT_HOMEKIT,
              timestamp |-> NowResumed, local |-> ret], 3)
    ELSE IF i = 3 THEN Reply(send_result(ret))
    ELSE Reply(send_error("homekit_error"))

\* websocket_sync_homekit (lines 918-938): the push is awaited (926); when
\* it has returned the clock is read and the timestamp stored (930); then
\* the push's result is sent.
websocket_sync_homekit(d, msg, i, ret) ==
    IF i = 1 THEN
        LET p == push(d)
        IN  IF ~p.ok THEN Reply(send_error("homekit_error"))
            ELSE AwaitBridge(2, p.result, p.bridges, p.ops)
    ELSE IF i = 2 THEN
        Call([op |-> "set_last_generated", assistant |-> ASSISTANT_HOMEKIT,
              timestamp |-> NowResumed, local |-> ret], 3)
    ELSE Reply(send_result(ret))

websocket_import_homekit(d, msg, i, ret) ==
    IF i = 1 THEN
        LET p == pull(d)
        IN  IF ~p.ok THEN Reply(send_error("homekit_error")) ELSE Call(p.op, 2)
    ELSE Reply(send_result(ret))

\* Mutant of get_full_state: the store hands out its own document.
get_full_state_internal(d) == [state |-> d, owned |-> FALSE]

\* storage.get_full_state(): a snapshot of the document (4.2), an object of
\* the caller's own.
get_full_state(d) == [state |-> d, owned |-> TRUE]

\* websocket_get_state assigns the registries' data and the bridges into
\* the object get_full_state returned and sends it.
websocket_get_state(d, msg, i, ret) ==
    LET s == get_full_state(d)
        state == Update(s.state,
                        [entities |-> Registered,
                         devices |-> {DeviceOf(e) : e \in Registered} \ {None},
                         areas |-> {},
                         domains |-> {DomainOf(e) : e \in Registered},
                         homekit_bridges |-> Bridges,
                         homekit_supported_domains |-> HOMEKIT_SUPPORTED_DOMAINS])
    IN  ReplyWith(send_result(state), IF s.owned THEN d ELSE state)

\* generator.generate_<assistant>_yaml(): the exposure dataset the document
\* encodes (4.3): the registered entities the assistant's effective
\* FilterConfig exposes, and its effective alias map.
generate_yaml(d, a) ==
    [yaml |-> [entities |-> {e \in Registered :
                                exposed(Descriptor(e), d[EffectiveFilterKey(d, a)])},
               aliases |-> Get(d, EffectiveAliasKey(d, a), EmptyDict)],
     warnings |-> {}]

websocket_preview_yaml(d, msg, i, ret) ==
    LET assistant == Get(msg, "assistant", None)
        wanted == {a \in {ASSISTANT_GOOGLE, ASSISTANT_ALEXA} :
                      assistant = None \/ assistant = a}
    IN  Reply(send_result(
            [a \in wanted |->
                [yaml |-> generate_yaml(d, a).yaml,
                 warnings |-> generate_yaml(d, a).warnings,
                 complete |-> IF a = ASSISTANT_GOOGLE THEN is_google_complete(d)
                              ELSE is_alexa_complete(d)]]))

websocket_get_homekit_bridges(d, msg, i, ret) ==
    Reply(send_result([bridges |-> Bridges]))

\* The assistants in the order websocket_write_files goes through them.
WriteOrder == <<ASSISTANT_GOOGLE, ASSISTANT_ALEXA, ASSISTANT_HOMEKIT>>

\* Mutant of is_complete: no assistant is held back.
is_complete_always(d, a) == TRUE

\* storage.is_<assistant>_complete() as write_files asks it (lines 797, 813, 829).
is_complete(d, a) ==
    CASE a = ASSISTANT_GOOGLE -> is_google_complete(d)
      [] a = ASSISTANT_ALEXA -> is_alexa_complete(d)
      [] a = ASSISTANT_HOMEKIT -> is_homekit_complete(d)

\* generator.async_write_<assistant>_yaml(), write(assistant) of 4.3, when
\* it is called: it refuses an assistant that is not complete, otherwise it
\* starts the file write.
async_write_yaml(d, a) == is_complete(d, a)

\* The file write that was awaited has ended: the artifact is persisted
\* unless the file cannot be written.
file_written(a) == a \notin faults

\* The record, in bridgeops, of an artifact written or a bridge synced.
Written(a) == [op |-> "write", e |-> a]

\* Mutant of write_files_from: a block that failed ends the command.
RECURSIVE write_files_from_stop(_, _, _, _)
write_files_from_stop(d, result, timestamp, j) ==
    IF j > Len(WriteOrder) THEN Reply(send_result(result))
    ELSE IF j > 1 /\ result[WriteOrder[j - 1]].error \notin {None, "incomplete"}
    THEN Reply(send_result(result))
    ELSE LET a == WriteOrder[j]
             local == [result |-> result, timestamp |-> timestamp]
         IN  IF ~is_complete(d, a)
             THEN write_files_from_stop(d, [result EXCEPT ![a].error = "incomplete"],
                                        timestamp, j + 1)
             ELSE IF a = ASSISTANT_HOMEKIT
             THEN LET p == push(d)
                  IN  IF ~p.ok
                      THEN Reply(send_result([result EXCEPT ![a].error = "homekit_error"]))
                      ELSE AwaitBridge(2 * j, local, p.bridges, p.ops \cup {Written(a)})
             ELSE IF ~async_write_yaml(d, a)
             THEN Reply(send_result([result EXCEPT ![a].error = "write_error"]))
             ELSE AwaitFile(2 * j, local)

\* websocket_write_files from the start of its block number j, with the
\* result built so far: an incomplete assistant gets its error and the next
\* block runs; for a complete one the file write (the two YAML files) or
\* the push (HomeKit) is awaited; a write or a push that is refused leaves
\* its error in the result and the next block runs.
RECURSIVE write_files_from(_, _, _, _)
write_files_from(d, result, timestamp, j) ==
    IF j > Len(WriteOrder) THEN Reply(send_result(result))
    ELSE LET a == WriteOrder[j]
             local == [result |-> result, timestamp |-> timestamp]
         IN  IF ~is_complete(d, a)
             THEN write_files_from(d, [result EXCEPT ![a].error = "incomplete"],
                                   timestamp, j + 1)
             ELSE IF a = ASSISTANT_HOMEKIT
             THEN LET p == push(d)
                  IN  IF ~p.ok
                      THEN write_files_from(d, [result EXCEPT ![a].error = "homekit_error"],
                                            timestamp, j + 1)
                      ELSE AwaitBridge(2 * j, local, p.bridges, p.ops \cup {Written(a)})
             ELSE IF ~async_write_yaml(d, a)
             THEN write_files_from(d, [result EXCEPT ![a].error = "write_error"],
                                   timestamp, j + 1)
             ELSE AwaitFile(2 * j, local)

\* Block number j of websocket_write_files when the write or the push it
\* awaited has ended: a file that could not be written leaves its error
\* and the next block runs; otherwise the artifact is there and the
\* timestamp is stored, after which written is set.
write_files_stamp(d, result, timestamp, j) ==
    LET a == WriteOrder[j]
        stamp == [op |-> "set_last_generated", assistant |-> a,
                  timestamp |-> timestamp,
                  local |-> [result |-> [result EXCEPT ![a].written = TRUE],
                             timestamp |-> timestamp]]
    IN  IF a = ASSISTANT_HOMEKIT THEN Call(stamp, 2 * j + 1)
        ELSE IF ~file_written(a)
        THEN write_files_from(d, [result EXCEPT ![a].error = "write_error"],
                              timestamp, j + 1)
        ELSE CallAfterBridge(stamp, 2 * j + 1, bridges, {Written(a)})

\* websocket_write_files (lines 779-850) at segment i: 2j-1 is the start of
\* block j, 2j the end of the write or push block j awaited.
websocket_write_files(d, msg, i, ret) ==
    IF i = 1
    THEN write_files_from(d, [a \in VALID_ASSISTANTS |-> [written |-> FALSE, error |-> None]],
                          Now, 1)
    ELSE IF i % 2 = 0 THEN write_files_stamp(d, ret.result, ret.timestamp, i \div 2)
    ELSE write_files_from(d, ret.result, ret.timestamp, (i + 1) \div 2)

\* The actions of bulk_update (lines 459-471).
BulkActions ==
    {"exclude", "unexclude", "set_alias_prefix", "set_alias_suffix", "clear_alias",
     "exclude_domain", "exclude_device", "add_override", "remove_override"}

\* Mutant of bulk_update_schema: the number of ids is not bounded.
bulk_update_schema_unbounded(msg) ==
    /\ msg.action \in BulkActions
    /\ "assistant" \in DOMAIN msg => msg.assistant \in {None} \cup VALID_ASSISTANTS

\* vol.Optional("assistant"): vol.In([google, alexa, homekit]) (lines 281,
\* 317, 359, 389, 426, 474); an omitted assistant is None here.
assistant_schema(msg) ==
    "assistant" \in DOMAIN msg => msg.assistant \in {None} \cup VALID_ASSISTANTS

\* The voluptuous schema of bulk_update (lines 456-476): the action is one of
\* the nine, entity_ids has at most MAX_BULK_ENTITIES elements, the
\* assistant is one of the three.
bulk_update_schema(msg) ==
    /\ msg.action \in BulkActions
    /\ BagCardinality(msg.entity_ids) <= MAX_BULK_ENTITIES
    /\ assistant_schema(msg)

\* The filter_mode of a FilterConfig in a request, when it has one, is one
\* of the two (lines 311, 624, 631, 638, 645).
filter_config_schema(msg, f) ==
    (f \in DOMAIN msg /\ "filter_mode" \in DOMAIN msg[f]) =>
        msg[f].filter_mode \in {FILTER_MODE_EXCLUDE, FILTER_MODE_INCLUDE}

\* The voluptuous schemas of the commands, as far as they bound a value.
request_schema(msg) ==
    CASE msg.type = "set_mode" -> msg.mode \in {MODE_LINKED, MODE_SEPARATE}
      [] msg.type = "set_filter_mode" ->
           /\ msg.filter_mode \in {FILTER_MODE_EXCLUDE, FILTER_MODE_INCLUDE}
           /\ assistant_schema(msg)
      [] msg.type = "set_filter_config" ->
           filter_config_schema(msg, "filter_config") /\ assistant_schema(msg)
      [] msg.type \in {"set_domains", "toggle_override", "set_alias"} ->
           assistant_schema(msg)
      [] msg.type = "bulk_update" -> bulk_update_schema(msg)
      [] msg.type = "set_settings" ->
           msg.assistant \in {ASSISTANT_GOOGLE, ASSISTANT_ALEXA}
      [] msg.type = "save_all" ->
           \A a \in {None} \cup VALID_ASSISTANTS :
               filter_config_schema(msg, FilterKey(a))
      [] msg.type = "preview_yaml" ->
           "assistant" \in DOMAIN msg =>
               msg.assistant \in {ASSISTANT_GOOGLE, ASSISTANT_ALEXA}
      [] OTHER -> TRUE

\* The code of the error a handler answers with from its "except Exception".
ErrorCode(type) ==
    CASE type = "get_state" -> "state_error"
      [] type = "set_mode" -> "mode_error"
      [] type = "set_filter_mode" -> "filter_mode_error"
      [] type = "set_filter_config" -> "filter_config_error"
      [] type = "set_domains" -> "domains_error"
      [] type = "toggle_override" -> "override_error"
      [] type = "set_alias" -> "alias_error"
      [] type = "bulk_update" -> "bulk_update_error"
      [] type = "set_settings" -> "settings_error"
      [] type = "save_all" -> "save_all_error"
      [] type = "preview_yaml" -> "preview_error"
      [] type = "write_files" -> "write_error"
      [] OTHER -> "homekit_error"

\* Mutant of OnStorageFault: the store call that failed is made again.
OnStorageFault_retry(d, rec, i) == Call(rec.op, i)

\* The store call the handler of rec was awaiting has raised a storage
\* fault.  Inside a block of write_files the fault is caught by the block:
\* the assistant's error is set, written is not, and the next block runs.
\* Everywhere else the handler's "except Exception" answers with its error.
OnStorageFault(d, rec, i) ==
    IF rec.msg.type = "write_files"
    THEN LET a == WriteOrder[(i - 1) \div 2]
             local == rec.op.local
         IN  write_files_from(d, [local.result EXCEPT
                                     ![a] = [written |-> FALSE, error |-> "storage_fault"]],
                              local.timestamp, (i + 1) \div 2)
    ELSE Reply(send_error(ErrorCode(rec.msg.type)))

\* The handler registered for the request's type.  A request that fails
\* the command's schema is answered by the transport; the handler is not run.
Handler(d, msg, i, ret) ==
    IF ~request_schema(msg) THEN Reply(send_error("invalid_format"))
    ELSE
    CASE msg.type = "get_state" -> websocket_get_state(d, msg, i, ret)
      [] msg.type = "preview_yaml" -> websocket_preview_yaml(d, msg, i, ret)
      [] msg.type = "get_homekit_bridges" -> websocket_get_homekit_bridges(d, msg, i, ret)
      [] msg.type = "set_mode" -> websocket_set_mode(d, msg, i, ret)
      [] msg.type = "set_filter_mode" -> websocket_set_filter_mode(d, msg, i, ret)
      [] msg.type = "set_filter_config" -> websocket_set_filter_config(d, msg, i, ret)
      [] msg.type = "set_domains" -> websocket_set_domains(d, msg, i, ret)
      [] msg.type = "toggle_override" -> websocket_toggle_override(d, msg, i, ret)
      [] msg.type = "set_alias" -> websocket_set_alias(d, msg, i, ret)
      [] msg.type = "bulk_update" -> websocket_bulk_update(d, msg, i, ret)
      [] msg.type = "save_all" -> websocket_save_all(d, msg, i, ret)
      [] msg.type = "set_settings" -> websocket_set_settings(d, msg, i, ret)
      [] msg.type = "write_files" -> websocket_write_files(d, msg, i, ret)
      [] msg.type = "set_homekit_bridge" -> websocket_set_homekit_bridge(d, msg, i, ret)
      [] msg.type = "sync_homekit" -> websocket_sync_homekit(d, msg, i, ret)
      [] msg.type = "import_homekit" -> websocket_import_homekit(d, msg, i, ret)

(***************************************************************************)
(* Requests.  Each set holds requests that pass the command's voluptuous   *)
(* schema (the transport rejects the others before the handler runs).      *)
(***************************************************************************)
\* msg.get("assistant"): absent (None) or one of the three assistants.
AssistantArgs == {None} \cup VALID_ASSISTANTS

\* Partial filter configs: one field, several fields, all five fields (with
\* empty lists), a repeated element, an entity id longer than the limit.
FilterConfigRequests ==
    { [domains |-> L(<<"light">>)],
      [entities |-> L(<<"switch.fan">>), overrides |-> L(<<"light.kitchen">>)],
      [filter_mode |-> FILTER_MODE_INCLUDE, devices |-> L(<<"dev_a">>)],
      [overrides |-> L(<<"light.hall", "light.hall">>)],
      [filter_mode |-> FILTER_MODE_EXCLUDE, domains |-> L(<<>>), entities |-> L(<<>>),
       devices |-> L(<<>>), overrides |-> L(<<>>)],
      [entities |-> L(<<"light.overlong_entity_id">>)] }

SaveAllRequests ==
    { [type |-> "save_all", filter_config |-> [domains |-> L(<<"light">>)]],
      [type |-> "save_all",
       google_filter_config |-> [overrides |-> L(<<"light.kitchen">>)],
       google_aliases |-> Put(EmptyDict, "light.kitchen", "Lamp")],
      [type |-> "save_all",
       filter_config |-> [filter_mode |-> FILTER_MODE_INCLUDE],
       google_filter_config |-> [entities |-> L(<<"light.overlong_entity_id">>)]],
      [type |-> "save_all",
       homekit_filter_config |-> [entities |-> L(<<"switch.fan">>)],
       aliases |-> Put(EmptyDict, "switch.fan", "Fan"),
       alexa_settings |-> [enabled |-> TRUE, advanced_yaml |-> "overlong yaml"]],
      [type |-> "save_all",
       alexa_filter_config |-> [devices |-> L(<<"dev_a">>)],
       alexa_aliases |-> Put(EmptyDict, "light.hall", "Hall"),
       google_settings |-> [DEFAULT_GOOGLE_SETTINGS EXCEPT !.enabled = TRUE,
                                                           !.project_id = "proj"],
       alexa_settings |-> [enabled |-> TRUE, advanced_yaml |-> ""],
       homekit_entry_id |-> "bridge_1"],
      [type |-> "save_all", aliases |-> Put(EmptyDict, "light.hall", "Hall"),
       homekit_entry_id |-> "bridge_9"] }

\* The list that holds e n times.
Repeated(e, n) == [x \in {e} |-> n]

Requests ==
    {[type |-> "set_mode", mode |-> m] : m \in VALID_MODES}
    \cup {[type |-> "set_filter_mode", filter_mode |-> FILTER_MODE_INCLUDE,
           assistant |-> a] : a \in AssistantArgs}
    \cup {[type |-> "set_filter_mode", filter_mode |-> FILTER_MODE_EXCLUDE,
           assistant |-> None]}
    \cup {[type |-> "set_filter_config", filter_config |-> c, assistant |-> a] :
            c \in FilterConfigRequests, a \in {None, ASSISTANT_HOMEKIT}}
    \cup {[type |-> "set_domains", domains |-> L(<<"light", "switch">>),
           assistant |-> a] : a \in {None, ASSISTANT_ALEXA}}
    \cup {[type |-> "toggle_override", entity_id |-> e, assistant |-> a] :
            e \in {"light.kitchen", "light.hall"}, a \in AssistantArgs}
    \cup {[type |-> "toggle_override", entity_id |-> "light.overlong_entity_id",
           assistant |-> None]}
    \cup {[type |-> "set_alias", entity_id |-> "light.kitchen", alias |-> "Lamp",
           assistant |-> a] : a \in {None, ASSISTANT_GOOGLE, ASSISTANT_HOMEKIT}}
    \cup {[type |-> "set_alias", entity_id |-> "light.kitchen", alias |-> al,
           assistant |-> None] : al \in {"", "overlong alias"}}
    \cup {[type |-> "bulk_update", action |-> act,
           entity_ids |-> L(<<"light.hall", "switch.fan", "light.hall">>),
           value |-> "Up ", assistant |-> ASSISTANT_ALEXA] : act \in BulkActions}
    \cup {[type |-> "bulk_update", action |-> "exclude",
           entity_ids |-> L(<<"light.kitchen", "light.overlong_entity_id">>),
           value |-> "", assistant |-> None]}
    \cup {[type |-> "bulk_update", action |-> "exclude",
           entity_ids |-> L(<<"light.kitchen", "light.hall">>),
           value |-> "", assistant |-> ASSISTANT_ALEXA]}
    \cup {[type |-> "bulk_update", action |-> "set_alias_prefix",
           entity_ids |-> L(<<"light.kitchen", "media_player.tv", "sensor.ghost">>),
           value |-> "Upstairs ", assistant |-> None]}
    \cup {[type |-> "bulk_update", action |-> "exclude",
           entity_ids |-> Repeated("switch.fan", n),
           value |-> "", assistant |-> None] :
            n \in {MAX_BULK_ENTITIES, MAX_BULK_ENTITIES + 1}}
    \cup SaveAllRequests

(***************************************************************************)
(* Bounds, tasks, the initial state.                                       *)
(***************************************************************************)
\* Requests received in one behaviour.
MaxCmds == 3
\* Handler tasks that can be in flight together.
NumTasks == 3
Tasks == 1..NumTasks

NoMsg == [type |-> "none"]
NoOp == [op |-> "none"]
NoResp == [ok |-> FALSE, code |-> "none"]
IdleTask ==
    [pc |-> "idle", msg |-> NoMsg, next |-> 0, op |-> NoOp, ret |-> NoRet,
     fault |-> FALSE, resp |-> NoResp, pre |-> DEFAULT_DATA]
NoPrev == [msg |-> NoMsg, resp |-> NoResp, pre |-> DEFAULT_DATA]

\* The ids a bridge of the host platform can have, and the one bridge it
\* has at the start, which includes light.kitchen and light.hall.
BridgeIds == {"bridge_1"}
InitialBridges ==
    [b \in BridgeIds |-> [included |-> {"light.kitchen", "light.hall"}, rejects |-> {}]]

\* The document is created with the defaults on first load (3), its lists
\* the ones DEFAULT_DATA holds.  No request of Spec, SpecConc or SpecFrame
\* imports from a bridge, so one kind of pull is enough there.
Init ==
    /\ doc = DEFAULT_DATA
    /\ tasks = [t \in Tasks |-> IdleTask]
    /\ holder = 0
    /\ lockq = <<>>
    /\ ncmds = 0
    /\ prev = NoPrev
    /\ bridges = InitialBridges
    /\ bridgeops = {}
    /\ faults = {}
    /\ listobj = DefaultListObjects
    /\ pull_merges = FALSE

\* No request is in flight.
Quiet == \A t \in Tasks : tasks[t].pc \in {"idle", "done"}

\* A store operation is one read-modify-write (4.2): when the persistence
\* I/O fails the operation fails as a whole, the document stays as it was
\* and the caller gets the storage fault.
StoreFails == "store" \in faults
StoreOutcome(d, op) == IF StoreFails THEN d ELSE StoreApply(d, op)

\* The list objects of the document after the store operation op: each list
\* the operation stores is a list the store has built (AsStored), held by
\* the one field it was stored in.
ListsOutcome(op) ==
    IF StoreFails THEN listobj
    ELSE [s \in ListSlots |-> IF s \in StoreAssigns(op) THEN OwnList(s) ELSE listobj[s]]

\* The outcome of one synchronous segment of task t whose handler returned
\* step: a reply ends the request; a store call enters the critical section
\* when the lock is free and nobody waits, and queues behind the lock
\* otherwise.  A call on the bridge manager made in the segment has already
\* acted on the bridge.  A handler that changed in place an object it
\* shares with the store has changed the document (step.doc).
AfterStep(t, rec, d, h, q, o, step) ==
    LET b == Get(step, "bridges", bridges)
        ops == o \cup Get(step, "ops", {})
    IN  IF step.kind = "reply" THEN
            [doc |-> Get(step, "doc", d), holder |-> h, lockq |-> q,
             bridges |-> b, ops |-> ops, objs |-> listobj,
             task |-> [rec EXCEPT !.pc = "done", !.resp = step.resp]]
        ELSE IF step.kind = "await" THEN
            [doc |-> d, holder |-> h, lockq |-> q, bridges |-> b, ops |-> ops,
             objs |-> listobj,
             task |-> [rec EXCEPT !.pc = step.pc, !.op = NoOp, !.next = step.next,
                                  !.ret = step.local]]
        ELSE IF h = 0 /\ q = <<>> THEN
            [doc |-> StoreOutcome(d, step.op), holder |-> t, lockq |-> q,
             bridges |-> b, ops |-> ops, objs |-> ListsOutcome(step.op),
             task |-> [rec EXCEPT !.pc = "io", !.op = step.op, !.next = step.next,
                                  !.ret = StoreReturn(d, step.op),
                                  !.fault = StoreFails]]
        ELSE
            [doc |-> d, holder |-> h, lockq |-> Append(q, t),
             bridges |-> b, ops |-> ops, objs |-> listobj,
             task |-> [rec EXCEPT !.pc = "lock", !.op = step.op, !.next = step.next]]

\* Task t, whose record is rec, runs its handler from segment i: the handler
\* replies, or calls the store.  The store call enters the critical section
\* at once when it is free and nobody waits (the merge is applied in memory
\* and the task suspends on the persistence I/O); otherwise the task
\* suspends waiting for it.  h and q are the holder and the waiters, o the
\* bridge operations the request has issued so far; what the bridge manager
\* did in the segment has happened in either case.
RunSegment(t, rec, i, ret, d, h, q, o) ==
    CHOOSE r \in {AfterStep(t, [rec EXCEPT !.fault = FALSE], d, h, q, o, step) :
                    step \in {IF rec.fault THEN OnStorageFault(d, rec, i)
                               ELSE Handler(d, rec.msg, i, ret)}} : TRUE

\* The outcome r of a segment of task t becomes the state.
Commit(t, r) ==
    \E x \in {r} :
        /\ doc' = x.doc
        /\ holder' = x.holder
        /\ lockq' = x.lockq
        /\ tasks' = [tasks EXCEPT ![t] = x.task]
        /\ bridges' = x.bridges
        /\ bridgeops' = x.ops
        /\ listobj' = x.objs

\* A request arrives and its handler runs to its first suspension.
Receive(t, msg) ==
    /\ ncmds < MaxCmds
    /\ tasks[t].pc \in {"idle", "done"}
    /\ Commit(t, RunSegment(t, [IdleTask EXCEPT !.msg = msg, !.pre = doc], 1, FALSE,
                            doc, holder, lockq, IF Quiet THEN {} ELSE bridgeops))
    /\ ncmds' = ncmds + 1
    /\ prev' = IF tasks[t].pc = "done"
               THEN [msg |-> tasks[t].msg, resp |-> tasks[t].resp, pre |-> tasks[t].pre]
               ELSE NoPrev
    /\ UNCHANGED <<faults, pull_merges>>

\* The first waiter enters the critical section: its merge is applied.
Acquire(t) ==
    /\ tasks[t].pc = "lock"
    /\ holder = 0
    /\ lockq # <<>> /\ Head(lockq) = t
    /\ doc' = StoreOutcome(doc, tasks[t].op)
    /\ listobj' = ListsOutcome(tasks[t].op)
    /\ tasks' = [tasks EXCEPT ![t].pc = "io", ![t].ret = StoreReturn(doc, tasks[t].op),
                              ![t].fault = StoreFails]
    /\ holder' = t
    /\ lockq' = Tail(lockq)
    /\ UNCHANGED <<ncmds, prev, bridges, bridgeops, faults, pull_merges>>

\* The persistence I/O of task t completes or fails: the critical section is
\* left and the handler runs on to its response or its next store call.
Persisted(t) ==
    /\ tasks[t].pc = "io"
    /\ holder = t
    /\ Commit(t, RunSegment(t, tasks[t], tasks[t].next, tasks[t].ret, doc, 0, lockq,
                            bridgeops))
    /\ UNCHANGED <<ncmds, prev, faults, pull_merges>>

\* The file write or the bridge manager's call that task t awaits ends: the
\* handler runs on to its next await or to its response.
Completed(t) ==
    /\ tasks[t].pc \in {"file_io", "bridge_io"}
    /\ Commit(t, RunSegment(t, tasks[t], tasks[t].next, tasks[t].ret, doc, holder, lockq,
                            bridgeops))
    /\ UNCHANGED <<ncmds, prev, faults, pull_merges>>

\* A client that sends one request at a time, each after the response to
\* the one before.
Next ==
    \/ \E msg \in Requests : Quiet /\ Receive(1, msg)
    \/ Persisted(1)

Spec == Init /\ [][Next]_vars

(***************************************************************************)
(* Concurrent clients: up to NumTasks handlers in flight, each task one    *)
(* request, interleaved at the handlers' suspension points.                *)
(***************************************************************************)
ConcRequests ==
    { [type |-> "set_filter_config", filter_config |-> [domains |-> L(<<"light">>)],
       assistant |-> None],
      [type |-> "bulk_update", action |-> "exclude",
       entity_ids |-> L(<<"light.hall", "switch.fan">>), value |-> "",
       assistant |-> None],
      [type |-> "set_alias", entity_id |-> "light.kitchen", alias |-> "Lamp",
       assistant |-> None],
      [type |-> "toggle_override", entity_id |-> "light.kitchen", assistant |-> None] }

NextConc ==
    \E t \in Tasks :
        \/ \E msg \in ConcRequests : tasks[t].pc = "idle" /\ Receive(t, msg)
        \/ Acquire(t)
        \/ Persisted(t)

SpecConc == Init /\ [][NextConc]_vars

(***************************************************************************)
(* The bridge commands.  One client, one request at a time, on a document  *)
(* loaded in either mode, while the host platform's bridge changes between *)
(* requests: its inclusion list is edited outside this system, it starts   *)
(* or stops refusing an entity, it is deleted, it is created again.        *)
(***************************************************************************)
SyncRequests ==
    {[type |-> "set_mode", mode |-> m] : m \in VALID_MODES}
    \cup {[type |-> "set_homekit_bridge", entry_id |-> b] :
            b \in {None, "bridge_1", "bridge_9"}}
    \cup {[type |-> "save_all",
            homekit_filter_config |-> [entities |-> L(<<"light.kitchen">>),
                                       overrides |-> L(<<"light.hall">>)],
            homekit_entry_id |-> "bridge_1"],
           [type |-> "save_all", aliases |-> Put(EmptyDict, "light.hall", "Hall"),
            homekit_entry_id |-> "bridge_9"]}
    \cup {[type |-> t] : t \in {"sync_homekit", "import_homekit", "write_files"}}
    \cup {[type |-> "set_filter_config",
            filter_config |-> [entities |-> L(<<"light.kitchen">>)], assistant |-> a] :
            a \in {None, ASSISTANT_HOMEKIT}}
    \cup {[type |-> "set_settings", assistant |-> ASSISTANT_GOOGLE, settings |-> g] :
            g \in {[DEFAULT_GOOGLE_SETTINGS EXCEPT !.enabled = TRUE, !.project_id = "proj"],
                   [DEFAULT_GOOGLE_SETTINGS EXCEPT !.enabled = TRUE, !.project_id = "proj",
                                                   !.service_account_path = "sa.json"]}}
    \cup {[type |-> "set_settings", assistant |-> ASSISTANT_ALEXA,
            settings |-> [enabled |-> TRUE, advanced_yaml |-> ""]]}

\* What the bridge can be edited to outside this system.
IncludedSets ==
    {{}, {"light.kitchen", "light.hall"}, {"light.hall", "switch.fan"},
     {"light.hall", "media_player.tv"}}
RejectSets == {{}, {"switch.fan"}, {"light.kitchen"}}

\* A document read from storage, in either mode; the bridge manager's pull
\* is of either kind.
InitSync ==
    /\ doc \in {[DEFAULT_DATA EXCEPT !.mode = m] : m \in VALID_MODES}
    /\ tasks = [t \in Tasks |-> IdleTask]
    /\ holder = 0
    /\ lockq = <<>>
    /\ ncmds = 0
    /\ prev = NoPrev
    /\ bridges = InitialBridges
    /\ bridgeops = {}
    /\ faults = {}
    /\ listobj = LoadedListObjects
    /\ pull_merges \in BOOLEAN

BridgeEdited(id, inc) ==
    /\ Quiet
    /\ id \in Bridges
    /\ bridges[id].included # inc
    /\ bridges' = [bridges EXCEPT ![id].included = inc]
    /\ UNCHANGED <<doc, tasks, holder, lockq, ncmds, prev, bridgeops, faults, listobj,
                   pull_merges>>

BridgeRefuses(id, rej) ==
    /\ Quiet
    /\ id \in Bridges
    /\ bridges[id].rejects # rej
    /\ bridges' = [bridges EXCEPT ![id].rejects = rej]
    /\ UNCHANGED <<doc, tasks, holder, lockq, ncmds, prev, bridgeops, faults, listobj,
                   pull_merges>>

BridgeRemoved(id) ==
    /\ Quiet
    /\ id \in Bridges
    /\ bridges' = [b \in Bridges \ {id} |-> bridges[b]]
    /\ UNCHANGED <<doc, tasks, holder, lockq, ncmds, prev, bridgeops, faults, listobj,
                   pull_merges>>

BridgeCreated(id) ==
    /\ Quiet
    /\ id \in BridgeIds \ Bridges
    /\ bridges' = [b \in Bridges \cup {id} |->
                      IF b = id THEN [included |-> {}, rejects |-> {}] ELSE bridges[b]]
    /\ UNCHANGED <<doc, tasks, holder, lockq, ncmds, prev, bridgeops, faults, listobj,
                   pull_merges>>

NextSync ==
    \/ \E msg \in SyncRequests : Quiet /\ Receive(1, msg)
    \/ Persisted(1)
    \/ Completed(1)
    \/ \E id \in BridgeIds :
          \/ \E inc \in IncludedSets : BridgeEdited(id, inc)
          \/ \E rej \in RejectSets : BridgeRefuses(id, rej)
          \/ BridgeRemoved(id)
          \/ BridgeCreated(id)

SpecSync == InitSync /\ [][NextSync]_vars

(***************************************************************************)
(* The single-field commands, the settings and the read-only commands.     *)
(* One client, one request at a time, from the default document; some      *)
(* requests carry a value their command's schema refuses.                  *)
(***************************************************************************)
FrameRequests ==
    {[type |-> "set_mode", mode |-> m] : m \in VALID_MODES \cup {"bogus"}}
    \cup {[type |-> "set_filter_mode", filter_mode |-> fm, assistant |-> a] :
            fm \in {FILTER_MODE_INCLUDE, "bogus"}, a \in {None, ASSISTANT_GOOGLE}}
    \cup {[type |-> "set_filter_config", filter_config |-> [filter_mode |-> "bogus"],
            assistant |-> None],
           [type |-> "save_all",
            google_filter_config |-> [filter_mode |-> "bogus"],
            aliases |-> Put(EmptyDict, "light.hall", "Hall")]}
    \cup {[type |-> "set_domains", domains |-> L(<<"light", "light">>), assistant |-> a] :
            a \in {None, ASSISTANT_GOOGLE}}
    \cup {[type |-> "toggle_override", entity_id |-> "light.kitchen", assistant |-> a] :
            a \in {None, ASSISTANT_GOOGLE}}
    \cup {[type |-> "set_settings", assistant |-> ASSISTANT_GOOGLE, settings |-> g] :
            g \in {[enabled |-> TRUE],
                   [DEFAULT_GOOGLE_SETTINGS EXCEPT !.enabled = TRUE, !.project_id = "proj",
                                                   !.service_account_path = "sa.json"],
                   [DEFAULT_GOOGLE_SETTINGS EXCEPT !.project_id = "overlong project id"]}}
    \cup {[type |-> "set_settings", assistant |-> a,
            settings |-> [enabled |-> TRUE, advanced_yaml |-> "x: 1"]] :
            a \in {ASSISTANT_ALEXA, ASSISTANT_HOMEKIT}}
    \cup {[type |-> t] : t \in {"get_state", "get_homekit_bridges", "preview_yaml"}}
    \cup {[type |-> "preview_yaml", assistant |-> a] :
            a \in {ASSISTANT_GOOGLE, ASSISTANT_HOMEKIT}}

NextFrame ==
    \/ \E msg \in FrameRequests : Quiet /\ Receive(1, msg)
    \/ Persisted(1)

SpecFrame == Init /\ [][NextFrame]_vars

(***************************************************************************)
(* write_files next to one other request, on a document in which the three *)
(* assistants are complete, while the persistence layer and the two YAML   *)
(* files start and stop failing.  Task 1 carries write_files or get_state, *)
(* task 2 a request that disables an assistant or a save_all of two        *)
(* settings records; no request makes an assistant complete again.         *)
(***************************************************************************)
CompleteGoogleSettings ==
    [DEFAULT_GOOGLE_SETTINGS EXCEPT !.enabled = TRUE, !.project_id = "proj",
                                    !.service_account_path = "sa.json"]
CompleteData ==
    [DEFAULT_DATA EXCEPT !.google_settings = CompleteGoogleSettings,
                         !.alexa_settings = [enabled |-> TRUE, advanced_yaml |-> ""],
                         !.homekit_entry_id = "bridge_1"]

WriteRequests == {[type |-> "write_files"], [type |-> "get_state"]}

SaveAllSettings ==
    [type |-> "save_all", google_settings |-> DEFAULT_GOOGLE_SETTINGS,
     alexa_settings |-> DEFAULT_ALEXA_SETTINGS]

\* A save_all whose first field changes nothing and whose second one
\* deselects the bridge.
SaveAllBridge ==
    [type |-> "save_all", alexa_settings |-> [enabled |-> TRUE, advanced_yaml |-> ""],
     homekit_entry_id |-> None]

RivalRequests ==
    { [type |-> "set_settings", assistant |-> ASSISTANT_GOOGLE,
       settings |-> DEFAULT_GOOGLE_SETTINGS],
      [type |-> "set_settings", assistant |-> ASSISTANT_ALEXA,
       settings |-> DEFAULT_ALEXA_SETTINGS],
      [type |-> "set_homekit_bridge", entry_id |-> None],
      SaveAllSettings, SaveAllBridge }

\* What can fail: the persistence I/O of the store, the write of a YAML file.
FaultKinds == {"store", ASSISTANT_GOOGLE, ASSISTANT_ALEXA}

\* A complete document read from storage; none of the requests of SpecWrite
\* imports from a bridge.
InitWrite ==
    /\ doc = CompleteData
    /\ tasks = [t \in Tasks |-> IdleTask]
    /\ holder = 0
    /\ lockq = <<>>
    /\ ncmds = 0
    /\ prev = NoPrev
    /\ bridges = InitialBridges
    /\ bridgeops = {}
    /\ faults = {}
    /\ listobj = LoadedListObjects
    /\ pull_merges = FALSE

FaultAppears(k) ==
    /\ k \notin faults
    /\ faults' = faults \cup {k}
    /\ UNCHANGED <<doc, tasks, holder, lockq, ncmds, prev, bridges, bridgeops, listobj,
                   pull_merges>>

FaultClears(k) ==
    /\ k \in faults
    /\ faults' = faults \ {k}
    /\ UNCHANGED <<doc, tasks, holder, lockq, ncmds, prev, bridges, bridgeops, listobj,
                   pull_merges>>

NextWrite ==
    \/ \E msg \in WriteRequests : tasks[1].pc = "idle" /\ Receive(1, msg)
    \/ \E msg \in RivalRequests : tasks[2].pc = "idle" /\ Receive(2, msg)
    \/ \E t \in {1, 2} : Acquire(t)
    \/ \E t \in {1, 2} : Persisted(t)
    \/ \E t \in {1, 2} : Completed(t)
    \/ \E k \in FaultKinds : FaultAppears(k)
    \/ \E k \in FaultKinds : FaultClears(k)

SpecWrite == InitWrite /\ [][NextWrite]_vars

\* Where the handlers are: the lock, its waiters, each handler's position.
Positions ==
    <<holder, lockq, [t \in Tasks |-> tasks[t].pc], [t \in Tasks |-> tasks[t].next]>>

(***************************************************************************)
(* Every kind of failure next to another request (SpecLive).  Task 1       *)
(* carries a request whose handler can fail in each of the ways api.py     *)
(* handles: the schema refuses it, a validator refuses it (at once, or     *)
(* after an earlier field of save_all was stored), the bridge manager      *)
(* raises because no existing bridge is selected, the store raises a       *)
(* storage fault, a file cannot be written.  Task 2 carries a request that *)
(* disables an assistant, deselects the bridge or changes the shared       *)
(* FilterConfig.  The host platform's bridge can have been deleted.        *)
(***************************************************************************)
LiveRequests ==
    {[type |-> t] : t \in {"write_files", "get_state", "sync_homekit", "import_homekit"}}
    \cup {[type |-> "bulk_update", action |-> "exclude", entity_ids |-> ids,
            value |-> "", assistant |-> None] :
            ids \in {L(<<"light.kitchen", "light.hall">>),
                     L(<<"light.kitchen", "light.overlong_entity_id">>),
                     Repeated("switch.fan", MAX_BULK_ENTITIES + 1)}}
    \cup {[type |-> "bulk_update", action |-> "set_alias_prefix",
            entity_ids |-> L(<<"light.kitchen">>), value |-> "overlong alias",
            assistant |-> None],
           [type |-> "bulk_update", action |-> "exclude",
            entity_ids |-> L(<<"light.hall">>), value |-> "", assistant |-> "bogus"]}
    \cup {[type |-> "save_all",
            filter_config |-> [filter_mode |-> FILTER_MODE_INCLUDE],
            google_filter_config |-> [entities |-> L(<<"light.overlong_entity_id">>)]],
           [type |-> "save_all", aliases |-> Put(EmptyDict, "light.hall", "Hall"),
            homekit_entry_id |-> "bridge_9"]}
    \cup {[type |-> "set_homekit_bridge", entry_id |-> "bridge_9"]}

LiveRivals ==
    { [type |-> "set_settings", assistant |-> ASSISTANT_GOOGLE,
       settings |-> DEFAULT_GOOGLE_SETTINGS],
      [type |-> "set_homekit_bridge", entry_id |-> None],
      [type |-> "toggle_override", entity_id |-> "light.kitchen", assistant |-> None],
      SaveAllSettings }

\* The document of InitWrite, with a bridge manager of either kind.
InitLive ==
    /\ doc = CompleteData
    /\ tasks = [t \in Tasks |-> IdleTask]
    /\ holder = 0
    /\ lockq = <<>>
    /\ ncmds = 0
    /\ prev = NoPrev
    /\ bridges = InitialBridges
    /\ bridgeops = {}
    /\ faults = {}
    /\ listobj = LoadedListObjects
    /\ pull_merges \in BOOLEAN

NextLive ==
    \/ \E msg \in LiveRequests : tasks[1].pc = "idle" /\ Receive(1, msg)
    \/ \E msg \in LiveRivals : tasks[2].pc = "idle" /\ Receive(2, msg)
    \/ \E t \in {1, 2} : Acquire(t)
    \/ \E t \in {1, 2} : Persisted(t)
    \/ \E t \in {1, 2} : Completed(t)
    \/ \E k \in FaultKinds : FaultAppears(k)
    \/ \E k \in FaultKinds : FaultClears(k)
    \/ \E id \in BridgeIds : BridgeRemoved(id)

\* The handlers are scheduled by one event loop that runs every ready
\* handler: a waiter of the free store lock enters it.  Every awaited call
\* ends, with its value or with an exception: the persistence I/O and the
\* file write complete or fail, and a call on the bridge manager completes
\* or fails outright (5).  api.py sets no timeout of its own on any of its
\* awaits: a call that never ended would leave its request unanswered, and
\* that case is outside this specification.
SpecLive ==
    /\ InitLive
    /\ [][NextLive]_vars
    /\ \A t \in {1, 2} :
         /\ WF_Positions(Acquire(t))
         /\ WF_Positions(Persisted(t))
         /\ WF_Positions(Completed(t))

\* The document after the handler of msg has run alone, from segment i, on d.
RECURSIVE RunAlone(_, _, _, _)
RunAlone(d, msg, i, ret) ==
    LET step == Handler(d, msg, i, ret)
    IN  IF step.kind = "reply" THEN d
        ELSE RunAlone(StoreApply(d, step.op), msg, step.next, StoreReturn(d, step.op))

\* The documents that running the requests of the tasks S one after the
\* other, in some order, on d can end in.
RECURSIVE SerialDocs(_, _)
SerialDocs(d, S) ==
    IF S = {} THEN {d}
    ELSE UNION {SerialDocs(RunAlone(d, tasks[t].msg, 1, FALSE), S \ {t}) : t \in S}

(***************************************************************************)
(* Properties.  Under Spec one request is in flight at a time, so when     *)
(* task 1 is done, doc is the document its request left and cur.pre the    *)
(* document it found.                                                      *)
(***************************************************************************)
cur == tasks[1]
Done == cur.pc = "done"
Accepted == Done /\ cur.resp.ok
FilterFields == {"filter_mode"} \cup ListFields

\* A stored field holds the value a request gives for it (a list as a set).
Holds(stored, f, value) ==
    IF f \in ListFields THEN PySet(stored) = PySet(value) ELSE stored = value

\* The registered entities an assistant's effective FilterConfig exposes.
ExposureSet(d, a) ==
    {e \in Registered : exposed(Descriptor(e), d[EffectiveFilterKey(d, a)])}

\* C1: after an accepted set_filter_config, each of the five fields of the
\* addressed FilterConfig that the request carries holds the request's value
\* (replaced, not unioned), and each field the request omits holds the value
\* it had before.
C1_set_filter_config_merge ==
    (Accepted /\ cur.msg.type = "set_filter_config") =>
        LET k == FilterKey(cur.msg.assistant)
            req == cur.msg.filter_config
        IN  \A f \in FilterFields :
                IF f \in DOMAIN req THEN Holds(doc[k][f], f, req[f])
                ELSE doc[k][f] = cur.pre[k][f]

\* C1 witness: a request with domains only replaced a non-empty domains list
\* by a different one and kept a non-empty overrides list.
C1_witness ==
    /\ Accepted /\ cur.msg.type = "set_filter_config"
    /\ DOMAIN cur.msg.filter_config = {"domains"}
    /\ LET k == FilterKey(cur.msg.assistant)
       IN  /\ cur.pre[k].overrides # L(<<>>)
           /\ cur.pre[k].domains # L(<<>>)
           /\ ~(PySet(cur.pre[k].domains) \subseteq PySet(doc[k].domains))
           /\ doc[k].overrides = cur.pre[k].overrides

\* C2: when no handler is in flight, the document is one that running the
\* completed requests one after the other, in some order, produces: no
\* request's update is lost to an interleaving.
C2_serializable ==
    Quiet => doc \in SerialDocs(DEFAULT_DATA, {t \in Tasks : tasks[t].pc = "done"})

\* C3: a command answered with validation_error leaves the document as it
\* was before the command.
C3_validation_error_writes_nothing ==
    (Done /\ ~cur.resp.ok /\ cur.resp.code = "validation_error") => doc = cur.pre

\* C4: save_all leaves every top-level field absent from the request as it
\* was, and for each filter config in the request, each sub-field the
\* request omits keeps its stored value and each sub-field it carries holds
\* the request's value once the command is accepted.
C4_save_all_partial ==
    (Done /\ cur.msg.type = "save_all") =>
        /\ DOMAIN doc = DOMAIN cur.pre
        /\ \A k \in DOMAIN doc \ DOMAIN cur.msg : doc[k] = cur.pre[k]
        /\ \A k \in FilterKeys \cap DOMAIN cur.msg :
              \A f \in FilterFields :
                 IF f \in DOMAIN cur.msg[k]
                 THEN cur.resp.ok => Holds(doc[k][f], f, cur.msg[k][f])
                 ELSE doc[k][f] = cur.pre[k][f]

\* C4 witness: an accepted save_all whose filter_config carries domains only,
\* on a shared config with overrides and a document with a non-default
\* field the request does not name.
C4_witness ==
    /\ Accepted /\ cur.msg.type = "save_all"
    /\ "filter_config" \in DOMAIN cur.msg
    /\ "overrides" \notin DOMAIN cur.msg.filter_config
    /\ cur.pre.filter_config.overrides # L(<<>>)
    /\ doc.filter_config # cur.pre.filter_config
    /\ doc.filter_config.overrides = cur.pre.filter_config.overrides
    /\ \E k \in DOMAIN doc \ DOMAIN cur.msg : doc[k] # DEFAULT_DATA[k]

\* The two-stage decision as the claim words it: the criteria OR'd, the
\* base decision by mode, then the override flip.
TwoStage(E, C) ==
    LET matched == \/ E.domain \in PySet(C.domains)
                   \/ E.entity_id \in PySet(C.entities)
                   \/ E.device_id \in PySet(C.devices)
        base == (C.filter_mode = FILTER_MODE_INCLUDE) <=> matched
    IN  (E.entity_id \in PySet(C.overrides)) # base

\* The claim's scenario: exclude mode, domains [light], overrides [light.kitchen].
Scenario(C) ==
    /\ C.filter_mode = FILTER_MODE_EXCLUDE
    /\ PySet(C.domains) = {"light"}
    /\ PySet(C.overrides) = {"light.kitchen"}
    /\ PySet(C.entities) = {} /\ PySet(C.devices) = {}

\* C5: for every registered entity and every FilterConfig of the document,
\* exposed equals the two-stage function; a config that is the scenario
\* exposes light.kitchen and switch.fan and hides light.hall.
C5_exposed_two_stage ==
    \A k \in FilterKeys :
        /\ \A e \in Registered :
              exposed(Descriptor(e), doc[k]) = TwoStage(Descriptor(e), doc[k])
        /\ Scenario(doc[k]) =>
              /\ exposed(Descriptor("light.kitchen"), doc[k])
              /\ ~exposed(Descriptor("light.hall"), doc[k])
              /\ exposed(Descriptor("switch.fan"), doc[k])

\* C5 witness: the shared config is the scenario.
C5_witness == Scenario(doc.filter_config)

\* C6: a command that adds an entity to the overrides of a FilterConfig
\* (toggle_override answering added, bulk_update add_override of an id not
\* yet an override) negates that entity's exposure under that config and
\* leaves the exposure of every other entity as it was.
C6_override_flips ==
    /\ (Accepted /\ cur.msg.type = "toggle_override" /\ cur.resp.payload.added) =>
          LET k == FilterKey(cur.msg.assistant)
          IN  \A e \in Registered :
                 exposed(Descriptor(e), doc[k]) =
                    IF e = cur.msg.entity_id THEN ~exposed(Descriptor(e), cur.pre[k])
                    ELSE exposed(Descriptor(e), cur.pre[k])
    /\ (Accepted /\ cur.msg.type = "bulk_update" /\ cur.msg.action = "add_override") =>
          LET k == FilterKey(cur.msg.assistant)
              added == PySet(cur.msg.entity_ids) \ PySet(cur.pre[k].overrides)
          IN  \A e \in Registered :
                 exposed(Descriptor(e), doc[k]) =
                    IF e \in added THEN ~exposed(Descriptor(e), cur.pre[k])
                    ELSE exposed(Descriptor(e), cur.pre[k])

\* C6 witness: in include mode an entity that nothing matches was hidden,
\* toggle_override added it, and it is exposed.
C6_witness ==
    /\ Accepted /\ cur.msg.type = "toggle_override" /\ cur.resp.payload.added
    /\ LET k == FilterKey(cur.msg.assistant)
           E == Descriptor(cur.msg.entity_id)
       IN  /\ cur.pre[k].filter_mode = FILTER_MODE_INCLUDE
           /\ ~exposed(E, cur.pre[k])
           /\ exposed(E, doc[k])
           /\ \E e \in Registered : exposed(Descriptor(e), doc[k]) # exposed(E, doc[k])

\* C7: an accepted toggle_override answers added exactly when the id was not
\* an override of the addressed config, the id is an override afterwards
\* exactly when added, and no other id's membership changes.
C7_toggle_override ==
    (Accepted /\ cur.msg.type = "toggle_override") =>
        LET k == FilterKey(cur.msg.assistant)
            e == cur.msg.entity_id
            before == cur.pre[k].overrides
            after == doc[k].overrides
        IN  /\ cur.resp.payload.added = ~BagIn(e, before)
            /\ BagIn(e, after) = cur.resp.payload.added
            /\ PySet(after) \ {e} = PySet(before) \ {e}

\* C7 witness: a toggle removed an id and answered added=false while
\* another id stayed an override.
C7_witness ==
    /\ Accepted /\ cur.msg.type = "toggle_override"
    /\ ~cur.resp.payload.added
    /\ LET k == FilterKey(cur.msg.assistant)
       IN  /\ BagIn(cur.msg.entity_id, cur.pre[k].overrides)
           /\ PySet(doc[k].overrides) # {}

\* C8: after two consecutive accepted toggle_override requests with the same
\* entity id and the same assistant, the document is the one before the
\* first of them.
C8_toggle_twice_restores ==
    (/\ Accepted /\ cur.msg.type = "toggle_override"
     /\ prev.msg = cur.msg /\ prev.resp.ok) => doc = prev.pre

\* C8 witness: two such toggles on a document that was not the default one,
\* the first of which changed it.
C8_witness ==
    /\ Accepted /\ cur.msg.type = "toggle_override"
    /\ prev.msg = cur.msg /\ prev.resp.ok
    /\ prev.pre # DEFAULT_DATA
    /\ cur.pre # prev.pre

\* The commands of C9 and the keys that belong to an assistant argument.
AddressedCommands ==
    {"set_filter_mode", "set_filter_config", "set_domains", "toggle_override",
     "set_alias", "bulk_update"}

\* C9: in separate mode a mutation addressed to one assistant leaves the
\* FilterConfig and the alias map of the other two assistants and the
\* shared ones unchanged.
C9_separate_isolation ==
    (/\ Done /\ cur.msg.type \in AddressedCommands
     /\ cur.pre.mode = MODE_SEPARATE
     /\ cur.msg.assistant \in VALID_ASSISTANTS) =>
        \A b \in AssistantArgs \ {cur.msg.assistant} :
            /\ doc[FilterKey(b)] = cur.pre[FilterKey(b)]
            /\ get_aliases(doc, b) = get_aliases(cur.pre, b)

\* C9 witness: in separate mode a mutation addressed to Google changed
\* Google's FilterConfig while the shared one held a non-default value.
C9_witness ==
    /\ Accepted /\ cur.msg.type \in AddressedCommands
    /\ cur.pre.mode = MODE_SEPARATE
    /\ cur.msg.assistant = ASSISTANT_GOOGLE
    /\ doc.google_filter_config # cur.pre.google_filter_config
    /\ doc.filter_config # DEFAULT_FILTER_CONFIG

\* C10: in linked mode the FilterConfig and alias map exposure is resolved
\* from are the one shared pair for all three assistants, so the exposure
\* sets of the three are equal in every state, and a mutation changes them
\* identically whatever its assistant argument.
C10_linked_shared ==
    doc.mode = MODE_LINKED =>
        \A a \in VALID_ASSISTANTS :
            /\ EffectiveFilterKey(doc, a) = FilterKey(None)
            /\ EffectiveAliasKey(doc, a) = AliasKey(None)
            /\ ExposureSet(doc, a) = ExposureSet(doc, ASSISTANT_GOOGLE)
            /\ (Done /\ cur.pre.mode = MODE_LINKED) =>
                  ExposureSet(cur.pre, a) = ExposureSet(cur.pre, ASSISTANT_GOOGLE)

\* C10 witness: in linked mode, with Google's own FilterConfig different from
\* the shared one, a mutation changed the exposure set of HomeKit.
C10_witness ==
    /\ doc.mode = MODE_LINKED /\ Accepted /\ cur.pre.mode = MODE_LINKED
    /\ cur.msg.type \in AddressedCommands
    /\ doc.google_filter_config # doc.filter_config
    /\ doc.google_filter_config # DEFAULT_FILTER_CONFIG
    /\ ExposureSet(doc, ASSISTANT_HOMEKIT) # ExposureSet(cur.pre, ASSISTANT_HOMEKIT)

\* C11: an accepted bulk_update exclude on an Exclude-mode FilterConfig
\* leaves entities equal, as a set, to the earlier entities united with the
\* listed ids, every id once, and leaves the other four fields as they were.
C11_bulk_exclude_union ==
    (/\ Accepted /\ cur.msg.type = "bulk_update" /\ cur.msg.action = "exclude"
     /\ cur.pre[FilterKey(cur.msg.assistant)].filter_mode = FILTER_MODE_EXCLUDE) =>
        LET k == FilterKey(cur.msg.assistant)
        IN  /\ PySet(doc[k].entities) =
                  PySet(cur.pre[k].entities) \cup PySet(cur.msg.entity_ids)
            /\ \A e \in PySet(doc[k].entities) : doc[k].entities[e] = 1
            /\ \A f \in FilterFields \ {"entities"} : doc[k][f] = cur.pre[k][f]

\* C11 witness: the request repeats an id; one listed id was already in
\* entities, one was not, and entities held an id the request does not list.
C11_witness ==
    /\ Accepted /\ cur.msg.type = "bulk_update" /\ cur.msg.action = "exclude"
    /\ LET k == FilterKey(cur.msg.assistant)
           ids == cur.msg.entity_ids
           before == PySet(cur.pre[k].entities)
       IN  /\ cur.pre[k].filter_mode = FILTER_MODE_EXCLUDE
           /\ \E e \in PySet(ids) : ids[e] > 1
           /\ PySet(ids) \cap before # {}
           /\ PySet(ids) \ before # {}
           /\ before \ PySet(ids) # {}

\* The name the claim attaches the prefix to: the state's friendly name, else
\* the registry name, else the original name, else the entity id.
ClaimedName(e) ==
    LET r == RegistryEntry(e)
    IN  IF r.friendly_name \notin {None, ""} THEN r.friendly_name
        ELSE IF r.name \notin {None, ""} THEN r.name
        ELSE IF r.original_name \notin {None, ""} THEN r.original_name
        ELSE e

\* C12 as stated: after an accepted bulk_update set_alias_prefix every listed
\* id has the stored alias value + name, the name of an id without a registry
\* entry being the id itself.
C12_prefix_every_listed_id ==
    (Accepted /\ cur.msg.type = "bulk_update" /\ cur.msg.action = "set_alias_prefix") =>
        \A e \in PySet(cur.msg.entity_ids) :
            Get(get_aliases(doc, cur.msg.assistant), e, None) =
                cur.msg.value \o (IF e \in Registered THEN ClaimedName(e) ELSE e)

\* C12 amended: after an accepted bulk_update set_alias_prefix every listed id
\* that has a registry entry has the stored alias value + display name, the
\* value exactly as supplied; a listed id without a registry entry is passed
\* over, and every id the request does not set keeps the alias it had or none.
C12_prefix_registered_ids ==
    (Accepted /\ cur.msg.type = "bulk_update" /\ cur.msg.action = "set_alias_prefix") =>
        LET after == get_aliases(doc, cur.msg.assistant)
            before == get_aliases(cur.pre, cur.msg.assistant)
            set == PySet(cur.msg.entity_ids) \cap Registered
        IN  /\ \A e \in set : e \in DOMAIN after /\ after[e] = cur.msg.value \o ClaimedName(e)
            /\ DOMAIN after = DOMAIN before \cup set
            /\ \A e \in DOMAIN before \ set : after[e] = before[e]

\* C12 witness: a prefix with a trailing space was attached to a friendly
\* name and to a bare entity id, and a listed id without a registry entry
\* got no alias.
C12_witness ==
    /\ Accepted /\ cur.msg.type = "bulk_update" /\ cur.msg.action = "set_alias_prefix"
    /\ cur.msg.value = "Upstairs "
    /\ LET after == get_aliases(doc, cur.msg.assistant)
       IN  /\ "light.kitchen" \in DOMAIN after
           /\ after["light.kitchen"] = "Upstairs Kitchen Light"
           /\ "media_player.tv" \in DOMAIN after
           /\ after["media_player.tv"] = "Upstairs media_player.tv"
           /\ \E e \in PySet(cur.msg.entity_ids) : e \notin DOMAIN after

\* C13: a bulk_update with more than MAX_BULK_ENTITIES ids is answered with
\* an error and leaves the document as it was; one with at most
\* MAX_BULK_ENTITIES ids is not answered with the schema's error.
C13_bulk_size_bound ==
    (Done /\ cur.msg.type = "bulk_update") =>
        IF BagCardinality(cur.msg.entity_ids) > MAX_BULK_ENTITIES
        THEN ~cur.resp.ok /\ doc = cur.pre
        ELSE cur.resp.ok \/ cur.resp.code # "invalid_format"

\* C13 witness: a request with MAX_BULK_ENTITIES ids was accepted and changed
\* the document, and the next one, with one id more, was rejected.
C13_witness ==
    /\ Done /\ cur.msg.type = "bulk_update"
    /\ BagCardinality(cur.msg.entity_ids) = MAX_BULK_ENTITIES + 1
    /\ ~cur.resp.ok
    /\ prev.msg.type = "bulk_update" /\ prev.resp.ok
    /\ BagCardinality(prev.msg.entity_ids) = MAX_BULK_ENTITIES
    /\ cur.pre # prev.pre

(***************************************************************************)
(* Properties of the bridge commands.  A step that receives a request has  *)
(* ncmds' # ncmds; its handler's first segment (the bridge lookup, the     *)
(* push, the pull) runs in that step.                                      *)
(***************************************************************************)
Received(type) == ncmds' # ncmds /\ tasks'[1].msg.type = type
Finished == tasks[1].pc # "done" /\ tasks'[1].pc = "done"
\* The selected bridge exists.
Selected(d) == d.homekit_entry_id # None /\ d.homekit_entry_id \in Bridges
HomekitError(resp) == ~resp.ok /\ resp.code = "homekit_error"

\* C14: a step changes the selected bridge id only for a set_homekit_bridge
\* or save_all request and only to null or to the id of a bridge that exists;
\* a set_homekit_bridge naming no existing bridge is answered at once with
\* homekit_error and changes nothing, and a save_all that ends in
\* homekit_error leaves the selected bridge id as it found it.
C14_bridge_id_validated ==
    [][/\ doc'.homekit_entry_id # doc.homekit_entry_id =>
             /\ tasks'[1].msg.type \in {"set_homekit_bridge", "save_all"}
             /\ doc'.homekit_entry_id \in {None} \cup Bridges
       /\ (/\ Received("set_homekit_bridge")
           /\ tasks'[1].msg.entry_id \notin {None} \cup Bridges) =>
             /\ tasks'[1].pc = "done" /\ HomekitError(tasks'[1].resp)
             /\ doc' = doc
       /\ (/\ Finished /\ tasks'[1].msg.type = "save_all"
           /\ "homekit_entry_id" \in DOMAIN tasks'[1].msg
           /\ tasks'[1].msg.homekit_entry_id \notin {None} \cup Bridges) =>
             /\ HomekitError(tasks'[1].resp)
             /\ doc'.homekit_entry_id = tasks'[1].pre.homekit_entry_id]_vars

\* C14 witness: bridge_1 was selected, the bridge was deleted, and a request
\* to select it again failed with the selection unchanged.
C14_witness ==
    /\ Done /\ cur.msg.type = "set_homekit_bridge" /\ cur.msg.entry_id = "bridge_1"
    /\ HomekitError(cur.resp)
    /\ doc.homekit_entry_id = "bridge_1" /\ "bridge_1" \notin Bridges

\* C15: sync_homekit and import_homekit received while the selected bridge
\* id is null or names no existing bridge are answered at once with
\* homekit_error, issue no bridge operation, and leave the bridges and the
\* document, last_generated included, as they were.
C15_sync_without_bridge ==
    [][(/\ Received("sync_homekit") \/ Received("import_homekit")
        /\ ~Selected(doc)) =>
            /\ tasks'[1].pc = "done" /\ HomekitError(tasks'[1].resp)
            /\ bridgeops' = {}
            /\ bridges' = bridges
            /\ doc' = doc]_vars

\* C15 witness: with the selected bridge deleted, an import and then a sync
\* failed with homekit_error and the document is the one the import found.
C15_witness ==
    /\ Done /\ cur.msg.type = "sync_homekit" /\ HomekitError(cur.resp)
    /\ doc.homekit_entry_id = "bridge_1" /\ "bridge_1" \notin Bridges
    /\ doc.last_generated.homekit = None
    /\ prev.msg.type = "import_homekit" /\ HomekitError(prev.resp)
    /\ prev.pre = doc

\* add(e) and remove(e) as recorded in bridgeops.
AddOps(S) == {[op |-> "add", e |-> e] : e \in S}
RemoveOps(S) == {[op |-> "remove", e |-> e] : e \in S}

\* C16: a sync_homekit received with the selected bridge including B and the
\* resolved set R issues add(e) exactly for R \ B and remove(e) exactly for
\* B \ R; when the bridge refuses nothing it includes R afterwards; for
\* B = {light.kitchen, light.hall} and R = {light.hall, switch.fan} the
\* operations are add(switch.fan) and remove(light.kitchen).
C16_push_minimal_diff ==
    [][(Received("sync_homekit") /\ Selected(doc)) =>
          LET id == doc.homekit_entry_id
              B == bridges[id].included
              R == ResolvedForBridge(doc)
          IN  /\ bridgeops' = AddOps(R \ B) \cup RemoveOps(B \ R)
              /\ bridges[id].rejects = {} => bridges'[id].included = R
              /\ (B = {"light.kitchen", "light.hall"} /\ R = {"light.hall", "switch.fan"}) =>
                    bridgeops' = {[op |-> "add", e |-> "switch.fan"],
                                  [op |-> "remove", e |-> "light.kitchen"]}]_vars

\* C16 witness: a sync issued add(switch.fan) and remove(light.kitchen) and
\* nothing else, and the bridge includes light.hall and switch.fan.
C16_witness ==
    /\ Accepted /\ cur.msg.type = "sync_homekit"
    /\ bridgeops = {[op |-> "add", e |-> "switch.fan"],
                    [op |-> "remove", e |-> "light.kitchen"]}
    /\ Selected(doc)
    /\ bridges[doc.homekit_entry_id].included = {"light.hall", "switch.fan"}

\* C17: no request adds to a bridge an entity of a domain outside
\* HOMEKIT_SUPPORTED_DOMAINS (media_player is outside); a sync_homekit
\* received with an existing selected bridge while HomeKit's effective
\* FilterConfig exposes media_player.tv does not fail (the push is awaited
\* and, when it has ended, the timestamp is stored) and does not make the
\* bridge include media_player.tv.
C17_push_supported_domains_only ==
    /\ [](\A o \in bridgeops :
             o.op = "add" => /\ DomainOf(o.e) \in HOMEKIT_SUPPORTED_DOMAINS
                             /\ DomainOf(o.e) # "media_player")
    /\ [][(/\ Received("sync_homekit") /\ Selected(doc)
           /\ exposed(Descriptor("media_player.tv"),
                      doc[EffectiveFilterKey(doc, ASSISTANT_HOMEKIT)])) =>
             /\ tasks'[1].pc = "bridge_io"
             /\ "media_player.tv" \notin bridges'[doc.homekit_entry_id].included]_vars
    /\ [][(/\ tasks[1].msg.type = "sync_homekit"
           /\ tasks[1].pc = "bridge_io" /\ tasks'[1].pc # "bridge_io") =>
             /\ tasks'[1].pc = "io"
             /\ tasks'[1].op.op = "set_last_generated"]_vars

\* C17 witness: a sync added entities while HomeKit's effective FilterConfig
\* exposed media_player.tv, and the bridge does not include it.
C17_witness ==
    /\ Accepted /\ cur.msg.type = "sync_homekit"
    /\ exposed(Descriptor("media_player.tv"),
               cur.pre[EffectiveFilterKey(cur.pre, ASSISTANT_HOMEKIT)])
    /\ \E o \in bridgeops : o.op = "add"
    /\ Selected(doc)
    /\ "media_player.tv" \notin bridges[doc.homekit_entry_id].included

\* C18: a sync_homekit received with the selected bridge including B,
\* refusing the entities of rej, and the resolved set R applies every add and
\* remove the bridge does not refuse and reports the refused ones: the
\* bridge then differs from R exactly on the refused entities of the diff,
\* and these are the failed entities of the result the handler answers with.
C18_push_best_effort ==
    [][(Received("sync_homekit") /\ Selected(doc)) =>
          LET id == doc.homekit_entry_id
              B == bridges[id].included
              rej == bridges[id].rejects
              R == ResolvedForBridge(doc)
              diff == (R \ B) \cup (B \ R)
              after == bridges'[id].included
          IN  /\ (after \ R) \cup (R \ after) = diff \cap rej
              /\ tasks'[1].ret.failed = diff \cap rej
              /\ tasks'[1].ret.added = (R \ B) \ rej
              /\ tasks'[1].ret.removed = (B \ R) \ rej]_vars

\* C18 witness: a sync was answered with a result that reports a refused
\* entity and an applied change, and the bridge holds the applied change.
C18_witness ==
    /\ Accepted /\ cur.msg.type = "sync_homekit"
    /\ cur.resp.payload.failed # {}
    /\ cur.resp.payload.added \cup cur.resp.payload.removed # {}
    /\ Selected(doc)
    /\ cur.resp.payload.added \subseteq bridges[doc.homekit_entry_id].included
    /\ cur.resp.payload.failed \cap bridges[doc.homekit_entry_id].included = {}

\* The completeness conditions as the claim words them.
GoogleCompleteCond(d) ==
    /\ d.google_settings.enabled = TRUE
    /\ d.google_settings.project_id # ""
    /\ d.google_settings.service_account_path # ""
AlexaCompleteCond(d) == d.alexa_settings.enabled = TRUE
HomekitCompleteCond(d) == d.homekit_entry_id # None

\* C20: is_google_complete, is_alexa_complete and is_homekit_complete are
\* true exactly under the claim's conditions, all three are false in the
\* default document, and write_files writes an assistant only when its
\* condition holds and answers an error for it otherwise.
C20_completeness ==
    /\ is_google_complete(doc) = GoogleCompleteCond(doc)
    /\ is_alexa_complete(doc) = AlexaCompleteCond(doc)
    /\ is_homekit_complete(doc) = HomekitCompleteCond(doc)
    /\ ~is_google_complete(DEFAULT_DATA)
    /\ ~is_alexa_complete(DEFAULT_DATA)
    /\ ~is_homekit_complete(DEFAULT_DATA)
    /\ (Accepted /\ cur.msg.type = "write_files") =>
          LET r == cur.resp.payload
          IN  /\ r.google.written => GoogleCompleteCond(cur.pre)
              /\ r.alexa.written => AlexaCompleteCond(cur.pre)
              /\ r.homekit.written => HomekitCompleteCond(cur.pre)
              /\ \A a \in VALID_ASSISTANTS : r[a].written = (r[a].error = None)

\* C20 witness: write_files found Google enabled with an empty service
\* account path and did not write it, and wrote Alexa.
C20_witness ==
    /\ Accepted /\ cur.msg.type = "write_files"
    /\ cur.pre.google_settings.enabled /\ cur.pre.google_settings.project_id # ""
    /\ ~cur.resp.payload.google.written
    /\ cur.resp.payload.alexa.written
    /\ doc.last_generated.alexa # None /\ doc.last_generated.google = None

(***************************************************************************)
(* Frame conditions of the single-field commands, the settings and the     *)
(* read-only commands (SpecFrame).                                         *)
(***************************************************************************)
\* Every part of the document but the part k is as the request found it.
OnlyPartChanged(k) ==
    /\ DOMAIN doc = DOMAIN cur.pre
    /\ \A x \in DOMAIN doc \ {k} : doc[x] = cur.pre[x]

\* C24: an accepted set_filter_mode leaves everything but filter_mode of the
\* FilterConfig its assistant argument addresses (the shared one when it is
\* omitted) as it was and sets that field to the request's value; an
\* accepted set_domains does the same with domains.
C24_single_field ==
    (Accepted /\ cur.msg.type \in {"set_filter_mode", "set_domains"}) =>
        LET k == FilterKey(cur.msg.assistant)
            f == IF cur.msg.type = "set_filter_mode" THEN "filter_mode" ELSE "domains"
        IN  /\ OnlyPartChanged(k)
            /\ DOMAIN doc[k] = DOMAIN cur.pre[k]
            /\ \A g \in DOMAIN doc[k] \ {f} : doc[k][g] = cur.pre[k][g]
            /\ Holds(doc[k][f], f, cur.msg[f])

\* C24 witness: after a set_filter_mode for Google was accepted, a
\* set_domains for Google changed the domains of Google's FilterConfig,
\* which kept its include mode and its one override.
C24_witness ==
    /\ Accepted /\ cur.msg.type = "set_domains"
    /\ cur.msg.assistant = ASSISTANT_GOOGLE
    /\ prev.msg.type = "set_filter_mode" /\ prev.resp.ok
    /\ doc.google_filter_config.domains # cur.pre.google_filter_config.domains
    /\ doc.google_filter_config.filter_mode = FILTER_MODE_INCLUDE
    /\ PySet(doc.google_filter_config.overrides) = {"light.kitchen"}

\* The settings a set_settings request addresses.
SettingsKey(a) == IF a = ASSISTANT_GOOGLE THEN "google_settings" ELSE "alexa_settings"

\* C25: an accepted set_settings is for Google or Alexa, leaves that
\* assistant's settings equal to the request's object, and leaves every
\* other part of the document as it was; a set_settings for HomeKit is
\* refused and changes nothing.
C25_settings_replaced ==
    /\ (Accepted /\ cur.msg.type = "set_settings") =>
          /\ cur.msg.assistant \in {ASSISTANT_GOOGLE, ASSISTANT_ALEXA}
          /\ doc[SettingsKey(cur.msg.assistant)] = cur.msg.settings
          /\ OnlyPartChanged(SettingsKey(cur.msg.assistant))
    /\ (Done /\ cur.msg.type = "set_settings"
         /\ cur.msg.assistant \notin {ASSISTANT_GOOGLE, ASSISTANT_ALEXA}) =>
          ~cur.resp.ok /\ doc = cur.pre

\* C25 witness: Google's settings held a project id and a service account
\* path, and an accepted set_settings carrying only enabled left neither.
C25_witness ==
    /\ Accepted /\ cur.msg.type = "set_settings"
    /\ cur.msg.assistant = ASSISTANT_GOOGLE
    /\ Get(cur.pre.google_settings, "project_id", "") = "proj"
    /\ Get(cur.pre.google_settings, "service_account_path", "") = "sa.json"
    /\ DOMAIN doc.google_settings = {"enabled"}
    /\ doc.alexa_settings.advanced_yaml = "x: 1"

\* C26: in every state mode is linked or separate and the filter_mode of
\* each of the four FilterConfigs is exclude or include; before any request
\* mode is linked and every filter_mode is exclude.
C26_modes_valid ==
    /\ doc.mode \in {MODE_LINKED, MODE_SEPARATE}
    /\ \A k \in FilterKeys : doc[k].filter_mode \in {FILTER_MODE_EXCLUDE, FILTER_MODE_INCLUDE}
    /\ ncmds = 0 =>
          /\ doc.mode = MODE_LINKED
          /\ \A k \in FilterKeys : doc[k].filter_mode = FILTER_MODE_EXCLUDE

\* C26 witness: in separate mode, with Google's filter_mode include, a
\* set_filter_mode carrying a value that is neither was refused.
C26_witness ==
    /\ Done /\ cur.msg.type = "set_filter_mode"
    /\ cur.msg.filter_mode \notin VALID_FILTER_MODES
    /\ ~cur.resp.ok
    /\ doc.mode = MODE_SEPARATE
    /\ doc.google_filter_config.filter_mode = FILTER_MODE_INCLUDE
    /\ doc.filter_config.filter_mode = FILTER_MODE_EXCLUDE

\* The FilterConfigs one of whose lists a step changes.
ListsChanged ==
    {k \in FilterKeys : \E f \in ListFields : doc'[k][f] # doc[k][f]}

\* The pairs of list fields of two FilterConfigs that hold one list object.
SharedLists ==
    {p \in ListSlots \X ListSlots : p[1][1] # p[2][1] /\ listobj[p[1]] = listobj[p[2]]}

ReadOnlyCommands == {"get_state", "preview_yaml", "get_homekit_bridges"}
StateExtras ==
    {"entities", "devices", "areas", "domains", "homekit_bridges",
     "homekit_supported_domains"}

\* C30: when a get_state, preview_yaml or get_homekit_bridges request is
\* answered, the document is the one the request found, get_full_state
\* returns it, and none of the keys get_state adds to its response is a key
\* of the document; the response of get_state carries those keys.
C30_read_only ==
    (Done /\ cur.msg.type \in ReadOnlyCommands) =>
        /\ doc = cur.pre
        /\ get_full_state(doc).state = cur.pre
        /\ DOMAIN doc \cap StateExtras = {}
        /\ (cur.resp.ok /\ cur.msg.type = "get_state") =>
              /\ StateExtras \subseteq DOMAIN cur.resp.payload
              /\ \A x \in DOMAIN doc : cur.resp.payload[x] = doc[x]

\* C30 witness: get_state was answered after preview_yaml on a document
\* that is not the default one, and its response carries the entities.
C30_witness ==
    /\ Accepted /\ cur.msg.type = "get_state"
    /\ prev.msg.type = "preview_yaml" /\ prev.resp.ok
    /\ doc # DEFAULT_DATA
    /\ cur.resp.payload.entities = Registered
    /\ doc = prev.pre

(***************************************************************************)
(* write_files next to another request and to failures (SpecWrite).        *)
(***************************************************************************)
WriteDone == Done /\ cur.msg.type = "write_files"

\* The assistant's completeness, read off the document's fields.
CompleteCond(d, a) ==
    CASE a = ASSISTANT_GOOGLE -> GoogleCompleteCond(d)
      [] a = ASSISTANT_ALEXA -> AlexaCompleteCond(d)
      [] a = ASSISTANT_HOMEKIT -> HomekitCompleteCond(d)

\* The writes and the bridge operations of one step.
NewOps == bridgeops' \ bridgeops

\* C21: write_files writes no artifact and issues no bridge operation for
\* an assistant that is not complete in the document at the moment of the
\* write, also when another request made it incomplete while write_files
\* was suspended; and for every assistant it did not write, its response
\* has written false and an error.  (A file is written when the awaited
\* write ends, the bridge is changed when the push is called.)
C21_write_only_when_complete ==
    [][/\ \A a \in VALID_ASSISTANTS : Written(a) \in NewOps => CompleteCond(doc, a)
       /\ (\E o \in NewOps : o.op \in {"add", "remove"}) => HomekitCompleteCond(doc)
       /\ (~WriteDone /\ WriteDone') =>
            /\ cur'.resp.ok
            /\ \A a \in VALID_ASSISTANTS :
                 Written(a) \notin bridgeops' =>
                     /\ cur'.resp.payload[a].written = FALSE
                     /\ cur'.resp.payload[a].error # None]_vars

\* The response of write_files shows that the assistant's block went past
\* the completeness test: the write succeeded, or it failed with an error
\* of its own.
Attempted(a) ==
    /\ cur.resp.payload[a].error # "incomplete"
    /\ cur.resp.payload[a].written \/ cur.resp.payload[a].error # None

\* C22: whatever the earlier blocks of write_files did (a failed Google
\* write, a failed store call), the response is a result with a
\* {written, error} entry for each of the three assistants, and every
\* assistant that is complete had its write or sync attempted.  (No
\* request of SpecWrite makes an assistant complete, so one that is
\* complete now was complete when its block ran.)
C22_siblings_attempted ==
    WriteDone =>
        /\ cur.resp.ok
        /\ DOMAIN cur.resp.payload = VALID_ASSISTANTS
        /\ \A a \in VALID_ASSISTANTS :
             /\ DOMAIN cur.resp.payload[a] = {"written", "error"}
             /\ CompleteCond(doc, a) => Attempted(a)

\* Google's file could not be written; Alexa's was, and the bridge synced.
C22_witness ==
    /\ WriteDone
    /\ cur.resp.payload[ASSISTANT_GOOGLE] = [written |-> FALSE, error |-> "write_error"]
    /\ Written(ASSISTANT_GOOGLE) \notin bridgeops
    /\ cur.resp.payload[ASSISTANT_ALEXA].written
    /\ Written(ASSISTANT_ALEXA) \in bridgeops
    /\ cur.resp.payload[ASSISTANT_HOMEKIT].written
    /\ Written(ASSISTANT_HOMEKIT) \in bridgeops

\* The timestamps a command can take (Now at its arrival).
WriteStamps == {"t" \o ToString(n) : n \in 1..MaxCmds}

\* C29: when write_files answers, written is true for an assistant exactly
\* when this command persisted its artifact or synced its bridge, and
\* last_generated is the command's one timestamp for the assistants with
\* written true and what it was before for the others.
C29_written_iff_persisted ==
    [][(~WriteDone /\ WriteDone') =>
         \E ts \in WriteStamps :
           \A a \in VALID_ASSISTANTS :
             /\ cur'.resp.payload[a].written = (Written(a) \in bridgeops')
             /\ doc'.last_generated[a] =
                  IF cur'.resp.payload[a].written THEN ts
                  ELSE cur'.pre.last_generated[a]]_vars

\* The fields a save_all request carries.
SaveAllCarried(msg) == DOMAIN msg \ {"type"}

\* C28: save_all is atomic for the other commands.  The document a
\* get_state answered with has either none or all of the fields of a
\* save_all request (as the document was when the save_all arrived, or as
\* the request asks), and a save_all answered with an error has left every
\* one of its fields as it was.
C28_save_all_atomic ==
    /\ \A t, u \in {1, 2} :
         (/\ tasks[t].pc = "done" /\ tasks[t].msg.type = "get_state" /\ tasks[t].resp.ok
          /\ tasks[u].msg.type = "save_all") =>
            \/ \A f \in SaveAllCarried(tasks[u].msg) :
                 tasks[t].resp.payload[f] = tasks[u].pre[f]
            \/ \A f \in SaveAllCarried(tasks[u].msg) :
                 tasks[t].resp.payload[f] = tasks[u].msg[f]
    /\ \A u \in {1, 2} :
         (tasks[u].pc = "done" /\ tasks[u].msg.type = "save_all" /\ ~tasks[u].resp.ok) =>
            \A f \in SaveAllCarried(tasks[u].msg) : doc[f] = tasks[u].pre[f]

(***************************************************************************)
(* Responses (SpecLive).                                                   *)
(***************************************************************************)
InFlight(t) == tasks[t].pc \in {"lock", "io", "file_io", "bridge_io"}
Responded(t) == tasks[t].pc = "done"

\* The error codes the handlers and the transport answer with.
ErrorCodes ==
    {"invalid_format", "validation_error", "homekit_error", "state_error", "mode_error",
     "filter_mode_error", "filter_config_error", "domains_error", "override_error",
     "alias_error", "bulk_update_error", "settings_error", "save_all_error",
     "preview_error", "write_error"}

\* A response is a result with its payload or an error with its code.
WellFormed(resp) ==
    IF resp.ok THEN DOMAIN resp = {"ok", "payload"}
    ELSE DOMAIN resp = {"ok", "code"} /\ resp.code \in ErrorCodes

\* C23: every request gets a response, whatever fails in its handler (a
\* validation, the bridge, the store); the response is a result or an
\* error with its code, never both, nothing is answered before the handler
\* ends, and once answered the request is not answered again.
C23_one_response ==
    /\ \A t \in {1, 2} : InFlight(t) ~> Responded(t)
    /\ [](\A t \in {1, 2} :
            IF Responded(t) THEN WellFormed(tasks[t].resp) ELSE tasks[t].resp = NoResp)
    /\ [][\A t \in {1, 2} :
            Responded(t) => tasks'[t].pc = "done" /\ tasks'[t].resp = tasks[t].resp]_vars

\* The bridge had been deleted and the store was failing: sync_homekit
\* answered the bridge manager's error, save_all the error of its store call.
C23_witness ==
    /\ Responded(1) /\ tasks[1].msg.type = "sync_homekit"
    /\ tasks[1].resp = send_error("homekit_error")
    /\ Bridges = {}
    /\ Responded(2) /\ tasks[2].msg.type = "save_all"
    /\ tasks[2].resp = send_error("save_all_error")
    /\ doc = CompleteData

(***************************************************************************)
(* set_mode (Spec).                                                        *)
(***************************************************************************)
\* The request before the current one was an accepted set_mode that took
\* the document from linked to separate mode, and the current one asks for
\* linked mode again.
BackToLinked ==
    /\ prev.msg.type = "set_mode" /\ prev.resp.ok
    /\ prev.pre.mode = MODE_LINKED /\ prev.msg.mode = MODE_SEPARATE
    /\ cur.msg.mode = MODE_LINKED

\* C31: an accepted set_mode sets mode to the request's value and leaves
\* every other part of the document (the shared and the per-assistant
\* FilterConfigs and alias maps among them) as it was; after linked to
\* separate and back to linked, every assistant's exposure set is what it
\* was before the first switch.
C31_set_mode_frame ==
    (Accepted /\ cur.msg.type = "set_mode") =>
        /\ OnlyPartChanged("mode")
        /\ doc.mode = cur.msg.mode
        /\ BackToLinked =>
             \A a \in VALID_ASSISTANTS : ExposureSet(doc, a) = ExposureSet(prev.pre, a)

\* Linked to separate and back, on a document whose Google FilterConfig
\* differs from the shared one: in separate mode Google's exposure set was
\* another one, and it is back to what it was.
C31_witness ==
    /\ Accepted /\ cur.msg.type = "set_mode" /\ BackToLinked
    /\ cur.pre.mode = MODE_SEPARATE /\ doc.mode = MODE_LINKED
    /\ doc.google_filter_config # doc.filter_config
    /\ ExposureSet(cur.pre, ASSISTANT_GOOGLE) # ExposureSet(doc, ASSISTANT_GOOGLE)
    /\ ExposureSet(doc, ASSISTANT_GOOGLE) = ExposureSet(prev.pre, ASSISTANT_GOOGLE)

====
